---- MODULE Spec2Model ----
(***************************************************************************)
(* The farmer-assistant backend (backend/server.py and the LlmChat wrapper *)
(* backend/emergentintegrations/llm/chat.py) as a state machine.           *)
(*                                                                         *)
(* A Python str is a sequence of Unicode code points, so that lower(),     *)
(* strip(), the script ranges of detect_language and the substring tests   *)
(* are computed as the code computes them.  An Optional value is the empty *)
(* set (None) or a one-element set.  The language tags and the API key are *)
(* opaque strings: the code only compares and copies them.                 *)
(***************************************************************************)
EXTENDS Integers, Sequences, FiniteSets, TLC

\* ---------------------------------------------------------------- bounds
\* chat requests of one behaviour of SpecChat and SpecMessages
MaxRequests == 2
\* create_session calls of one behaviour of SpecSession
MaxSessions == 2
\* chat requests, and create_session calls, of one behaviour of Spec
MaxServiceRequests == 1
MaxServiceSessions == 1
\* length of the texts of SpecDetect that are formed from its alphabet
MaxTextLen == 3

\* ------------------------------------------------------------ Optional[T]
None == {}
Some(x) == {x}
The(opt) == CHOOSE x \in opt : TRUE

\* Python's `opt or default` on Optional[str]: None and "" are falsy
OrStr(opt, default) == IF opt = None \/ opt = Some("") THEN default ELSE The(opt)
\* Python's `opt or default` on Optional[float]: None and 0 are falsy
OrNum(opt, default) == IF opt = None \/ opt = Some(0) THEN default ELSE The(opt)

Min(a, b) == IF a <= b THEN a ELSE b
Max(a, b) == IF a >= b THEN a ELSE b

\* ------------------------------------------------------------------- str
\* str.lower() on the letters A-Z (the texts of the model hold no other cased letter)
lower(text) ==
  [i \in 1..Len(text) |-> IF 65 <= text[i] /\ text[i] <= 90 THEN text[i] + 32 ELSE text[i]]

IsLetter(c) == (65 <= c /\ c <= 90) \/ (97 <= c /\ c <= 122)

\* str.title(): a letter that follows a non-letter in upper case, the others in lower case
title(text) ==
  [i \in 1..Len(text) |->
     IF ~IsLetter(text[i]) THEN text[i]
     ELSE IF i = 1 \/ ~IsLetter(text[Max(i - 1, 1)])
          THEN (IF text[i] >= 97 THEN text[i] - 32 ELSE text[i])
          ELSE (IF text[i] <= 90 THEN text[i] + 32 ELSE text[i])]

IsSpace(c) == c \in {9, 10, 11, 12, 13, 32}

\* str.strip(): leading and trailing white space removed
strip(text) ==
  LET keep == {i \in 1..Len(text) : ~IsSpace(text[i])} IN
  IF keep = {} THEN <<>>
  ELSE LET first == CHOOSE i \in keep : \A j \in keep : i <= j
           last  == CHOOSE i \in keep : \A j \in keep : i >= j
       IN SubSeq(text, first, last)

\* `word in text`
Contains(word, text) ==
  \E i \in 0..(Len(text) - Len(word)) : SubSeq(text, i + 1, i + Len(word)) = word

\* dict.get(key) on a dictionary kept as its <<key, value>> items in order
Get(dict, key) == {dict[i][2] : i \in {j \in 1..Len(dict) : dict[j][1] = key}}

\* ------------------------------------------------------- knowledge tables
\* server.py district_state_map, in dictionary order: <<district, state>>
district_state_map ==
  <<
     <<<<103, 117, 110, 116, 117, 114>>, <<97, 110, 100, 104, 114, 97, 32, 112, 114, 97, 100, 101, 115, 104>>>>,  \* guntur -> andhra pradesh
     <<<<107, 114, 105, 115, 104, 110, 97>>, <<97, 110, 100, 104, 114, 97, 32, 112, 114, 97, 100, 101, 115, 104>>>>,  \* krishna -> andhra pradesh
     <<<<110, 101, 108, 108, 111, 114, 101>>, <<97, 110, 100, 104, 114, 97, 32, 112, 114, 97, 100, 101, 115, 104>>>>,  \* nellore -> andhra pradesh
     <<<<107, 97, 114, 105, 109, 110, 97, 103, 97, 114>>, <<116, 101, 108, 97, 110, 103, 97, 110, 97>>>>,  \* karimnagar -> telangana
     <<<<119, 97, 114, 97, 110, 103, 97, 108>>, <<116, 101, 108, 97, 110, 103, 97, 110, 97>>>>,  \* warangal -> telangana
     <<<<110, 105, 122, 97, 109, 97, 98, 97, 100>>, <<116, 101, 108, 97, 110, 103, 97, 110, 97>>>>,  \* nizamabad -> telangana
     <<<<108, 117, 100, 104, 105, 97, 110, 97>>, <<112, 117, 110, 106, 97, 98>>>>,  \* ludhiana -> punjab
     <<<<97, 109, 114, 105, 116, 115, 97, 114>>, <<112, 117, 110, 106, 97, 98>>>>,  \* amritsar -> punjab
     <<<<106, 97, 108, 97, 110, 100, 104, 97, 114>>, <<112, 117, 110, 106, 97, 98>>>>,  \* jalandhar -> punjab
     <<<<109, 101, 101, 114, 117, 116>>, <<117, 116, 116, 97, 114, 32, 112, 114, 97, 100, 101, 115, 104>>>>,  \* meerut -> uttar pradesh
     <<<<108, 117, 99, 107, 110, 111, 119>>, <<117, 116, 116, 97, 114, 32, 112, 114, 97, 100, 101, 115, 104>>>>,  \* lucknow -> uttar pradesh
     <<<<97, 103, 114, 97>>, <<117, 116, 116, 97, 114, 32, 112, 114, 97, 100, 101, 115, 104>>>>,  \* agra -> uttar pradesh
     <<<<110, 97, 103, 112, 117, 114>>, <<109, 97, 104, 97, 114, 97, 115, 104, 116, 114, 97>>>>,  \* nagpur -> maharashtra
     <<<<112, 117, 110, 101>>, <<109, 97, 104, 97, 114, 97, 115, 104, 116, 114, 97>>>>,  \* pune -> maharashtra
     <<<<110, 97, 115, 104, 105, 107>>, <<109, 97, 104, 97, 114, 97, 115, 104, 116, 114, 97>>>>,  \* nashik -> maharashtra
     <<<<105, 110, 100, 111, 114, 101>>, <<109, 97, 100, 104, 121, 97, 32, 112, 114, 97, 100, 101, 115, 104>>>>,  \* indore -> madhya pradesh
     <<<<98, 104, 111, 112, 97, 108>>, <<109, 97, 100, 104, 121, 97, 32, 112, 114, 97, 100, 101, 115, 104>>>>,  \* bhopal -> madhya pradesh
     <<<<117, 106, 106, 97, 105, 110>>, <<109, 97, 100, 104, 121, 97, 32, 112, 114, 97, 100, 101, 115, 104>>>>,  \* ujjain -> madhya pradesh
     <<<<97, 104, 109, 101, 100, 97, 98, 97, 100>>, <<103, 117, 106, 97, 114, 97, 116>>>>,  \* ahmedabad -> gujarat
     <<<<114, 97, 106, 107, 111, 116>>, <<103, 117, 106, 97, 114, 97, 116>>>>,  \* rajkot -> gujarat
     <<<<115, 117, 114, 97, 116>>, <<103, 117, 106, 97, 114, 97, 116>>>>,  \* surat -> gujarat
     <<<<106, 97, 105, 112, 117, 114>>, <<114, 97, 106, 97, 115, 116, 104, 97, 110>>>>,  \* jaipur -> rajasthan
     <<<<106, 111, 100, 104, 112, 117, 114>>, <<114, 97, 106, 97, 115, 116, 104, 97, 110>>>>,  \* jodhpur -> rajasthan
     <<<<98, 105, 107, 97, 110, 101, 114>>, <<114, 97, 106, 97, 115, 116, 104, 97, 110>>>>,  \* bikaner -> rajasthan
     <<<<98, 101, 110, 103, 97, 108, 117, 114, 117>>, <<107, 97, 114, 110, 97, 116, 97, 107, 97>>>>,  \* bengaluru -> karnataka
     <<<<109, 121, 115, 111, 114, 101>>, <<107, 97, 114, 110, 97, 116, 97, 107, 97>>>>,  \* mysore -> karnataka
     <<<<98, 101, 108, 103, 97, 117, 109>>, <<107, 97, 114, 110, 97, 116, 97, 107, 97>>>>,  \* belgaum -> karnataka
     <<<<99, 104, 101, 110, 110, 97, 105>>, <<116, 97, 109, 105, 108, 32, 110, 97, 100, 117>>>>,  \* chennai -> tamil nadu
     <<<<99, 111, 105, 109, 98, 97, 116, 111, 114, 101>>, <<116, 97, 109, 105, 108, 32, 110, 97, 100, 117>>>>,  \* coimbatore -> tamil nadu
     <<<<109, 97, 100, 117, 114, 97, 105>>, <<116, 97, 109, 105, 108, 32, 110, 97, 100, 117>>>>,  \* madurai -> tamil nadu
     <<<<107, 111, 108, 107, 97, 116, 97>>, <<119, 101, 115, 116, 32, 98, 101, 110, 103, 97, 108>>>>,  \* kolkata -> west bengal
     <<<<112, 97, 116, 110, 97>>, <<98, 105, 104, 97, 114>>>>,  \* patna -> bihar
     <<<<114, 97, 110, 99, 104, 105>>, <<106, 104, 97, 114, 107, 104, 97, 110, 100>>>>   \* ranchi -> jharkhand
  >>
\* crop_knowledge.py STATE_AGRI_INFO, in dictionary order: <<state, the fields the service reads>>
STATE_AGRI_INFO ==
  <<
     <<<<97, 110, 100, 104, 114, 97, 32, 112, 114, 97, 100, 101, 115, 104>>, [rainfall_avg |-> 900]>>,  \* andhra pradesh
     <<<<116, 101, 108, 97, 110, 103, 97, 110, 97>>, [rainfall_avg |-> 900]>>,  \* telangana
     <<<<112, 117, 110, 106, 97, 98>>, [rainfall_avg |-> 500]>>,  \* punjab
     <<<<117, 116, 116, 97, 114, 32, 112, 114, 97, 100, 101, 115, 104>>, [rainfall_avg |-> 900]>>,  \* uttar pradesh
     <<<<109, 97, 104, 97, 114, 97, 115, 104, 116, 114, 97>>, [rainfall_avg |-> 1000]>>,  \* maharashtra
     <<<<109, 97, 100, 104, 121, 97, 32, 112, 114, 97, 100, 101, 115, 104>>, [rainfall_avg |-> 1100]>>,  \* madhya pradesh
     <<<<103, 117, 106, 97, 114, 97, 116>>, [rainfall_avg |-> 600]>>,  \* gujarat
     <<<<114, 97, 106, 97, 115, 116, 104, 97, 110>>, [rainfall_avg |-> 350]>>,  \* rajasthan
     <<<<107, 97, 114, 110, 97, 116, 97, 107, 97>>, [rainfall_avg |-> 1200]>>,  \* karnataka
     <<<<116, 97, 109, 105, 108, 32, 110, 97, 100, 117>>, [rainfall_avg |-> 950]>>   \* tamil nadu
  >>
\* crop_knowledge.py CROP_KNOWLEDGE, in dictionary order: <<crop, the fields the service reads>>
\* (yield_range_kg_ha as min/max/avg, the number of tips, optimal_soil)
CROP_KNOWLEDGE ==
  <<
     \* chickpea: optimal_soil ['Black', 'Loamy', 'Sandy loam']
     <<<<99, 104, 105, 99, 107, 112, 101, 97>>, [min |-> 800, max |-> 2000, avg |-> 1200, n_tips |-> 4,
        optimal_soil |-> <<<<66, 108, 97, 99, 107>>, <<76, 111, 97, 109, 121>>, <<83, 97, 110, 100, 121, 32, 108, 111, 97, 109>>>>]>>,
     \* pigeon_pea: optimal_soil ['Loamy', 'Sandy loam', 'Red']
     <<<<112, 105, 103, 101, 111, 110, 95, 112, 101, 97>>, [min |-> 600, max |-> 1500, avg |-> 900, n_tips |-> 4,
        optimal_soil |-> <<<<76, 111, 97, 109, 121>>, <<83, 97, 110, 100, 121, 32, 108, 111, 97, 109>>, <<82, 101, 100>>>>]>>,
     \* lentil: optimal_soil ['Loamy', 'Clay loam', 'Alluvial']
     <<<<108, 101, 110, 116, 105, 108>>, [min |-> 600, max |-> 1500, avg |-> 900, n_tips |-> 4,
        optimal_soil |-> <<<<76, 111, 97, 109, 121>>, <<67, 108, 97, 121, 32, 108, 111, 97, 109>>, <<65, 108, 108, 117, 118, 105, 97, 108>>>>]>>,
     \* moong: optimal_soil ['Loamy', 'Sandy loam', 'Alluvial']
     <<<<109, 111, 111, 110, 103>>, [min |-> 500, max |-> 1200, avg |-> 800, n_tips |-> 4,
        optimal_soil |-> <<<<76, 111, 97, 109, 121>>, <<83, 97, 110, 100, 121, 32, 108, 111, 97, 109>>, <<65, 108, 108, 117, 118, 105, 97, 108>>>>]>>,
     \* urad: optimal_soil ['Loamy', 'Clay loam', 'Black']
     <<<<117, 114, 97, 100>>, [min |-> 500, max |-> 1200, avg |-> 750, n_tips |-> 4,
        optimal_soil |-> <<<<76, 111, 97, 109, 121>>, <<67, 108, 97, 121, 32, 108, 111, 97, 109>>, <<66, 108, 97, 99, 107>>>>]>>,
     \* mustard: optimal_soil ['Loamy', 'Sandy loam', 'Alluvial']
     <<<<109, 117, 115, 116, 97, 114, 100>>, [min |-> 1000, max |-> 2500, avg |-> 1500, n_tips |-> 4,
        optimal_soil |-> <<<<76, 111, 97, 109, 121>>, <<83, 97, 110, 100, 121, 32, 108, 111, 97, 109>>, <<65, 108, 108, 117, 118, 105, 97, 108>>>>]>>,
     \* sunflower: optimal_soil ['Loamy', 'Clay loam', 'Black']
     <<<<115, 117, 110, 102, 108, 111, 119, 101, 114>>, [min |-> 1000, max |-> 2000, avg |-> 1400, n_tips |-> 4,
        optimal_soil |-> <<<<76, 111, 97, 109, 121>>, <<67, 108, 97, 121, 32, 108, 111, 97, 109>>, <<66, 108, 97, 99, 107>>>>]>>,
     \* castor: optimal_soil ['Sandy loam', 'Loamy', 'Red']
     <<<<99, 97, 115, 116, 111, 114>>, [min |-> 1000, max |-> 2500, avg |-> 1500, n_tips |-> 4,
        optimal_soil |-> <<<<83, 97, 110, 100, 121, 32, 108, 111, 97, 109>>, <<76, 111, 97, 109, 121>>, <<82, 101, 100>>>>]>>,
     \* sesame: optimal_soil ['Sandy loam', 'Loamy', 'Alluvial']
     <<<<115, 101, 115, 97, 109, 101>>, [min |-> 300, max |-> 800, avg |-> 450, n_tips |-> 4,
        optimal_soil |-> <<<<83, 97, 110, 100, 121, 32, 108, 111, 97, 109>>, <<76, 111, 97, 109, 121>>, <<65, 108, 108, 117, 118, 105, 97, 108>>>>]>>,
     \* tomato: optimal_soil ['Loamy', 'Sandy loam', 'Red']
     <<<<116, 111, 109, 97, 116, 111>>, [min |-> 20000, max |-> 50000, avg |-> 30000, n_tips |-> 4,
        optimal_soil |-> <<<<76, 111, 97, 109, 121>>, <<83, 97, 110, 100, 121, 32, 108, 111, 97, 109>>, <<82, 101, 100>>>>]>>,
     \* potato: optimal_soil ['Sandy loam', 'Loamy', 'Alluvial']
     <<<<112, 111, 116, 97, 116, 111>>, [min |-> 15000, max |-> 35000, avg |-> 22000, n_tips |-> 4,
        optimal_soil |-> <<<<83, 97, 110, 100, 121, 32, 108, 111, 97, 109>>, <<76, 111, 97, 109, 121>>, <<65, 108, 108, 117, 118, 105, 97, 108>>>>]>>,
     \* onion: optimal_soil ['Loamy', 'Clay loam', 'Alluvial']
     <<<<111, 110, 105, 111, 110>>, [min |-> 15000, max |-> 30000, avg |-> 20000, n_tips |-> 4,
        optimal_soil |-> <<<<76, 111, 97, 109, 121>>, <<67, 108, 97, 121, 32, 108, 111, 97, 109>>, <<65, 108, 108, 117, 118, 105, 97, 108>>>>]>>,
     \* chilli: optimal_soil ['Loamy', 'Sandy loam', 'Black']
     <<<<99, 104, 105, 108, 108, 105>>, [min |-> 8000, max |-> 20000, avg |-> 12000, n_tips |-> 4,
        optimal_soil |-> <<<<76, 111, 97, 109, 121>>, <<83, 97, 110, 100, 121, 32, 108, 111, 97, 109>>, <<66, 108, 97, 99, 107>>>>]>>,
     \* brinjal: optimal_soil ['Loamy', 'Clay loam', 'Alluvial']
     <<<<98, 114, 105, 110, 106, 97, 108>>, [min |-> 25000, max |-> 50000, avg |-> 35000, n_tips |-> 4,
        optimal_soil |-> <<<<76, 111, 97, 109, 121>>, <<67, 108, 97, 121, 32, 108, 111, 97, 109>>, <<65, 108, 108, 117, 118, 105, 97, 108>>>>]>>,
     \* okra: optimal_soil ['Loamy', 'Sandy loam', 'Alluvial']
     <<<<111, 107, 114, 97>>, [min |-> 8000, max |-> 15000, avg |-> 10000, n_tips |-> 4,
        optimal_soil |-> <<<<76, 111, 97, 109, 121>>, <<83, 97, 110, 100, 121, 32, 108, 111, 97, 109>>, <<65, 108, 108, 117, 118, 105, 97, 108>>>>]>>,
     \* rice: optimal_soil ['Alluvial', 'Clay', 'Loamy']
     <<<<114, 105, 99, 101>>, [min |-> 2500, max |-> 6500, avg |-> 4000, n_tips |-> 4,
        optimal_soil |-> <<<<65, 108, 108, 117, 118, 105, 97, 108>>, <<67, 108, 97, 121>>, <<76, 111, 97, 109, 121>>>>]>>,
     \* wheat: optimal_soil ['Alluvial', 'Loamy', 'Clay loam']
     <<<<119, 104, 101, 97, 116>>, [min |-> 2500, max |-> 5500, avg |-> 3500, n_tips |-> 4,
        optimal_soil |-> <<<<65, 108, 108, 117, 118, 105, 97, 108>>, <<76, 111, 97, 109, 121>>, <<67, 108, 97, 121, 32, 108, 111, 97, 109>>>>]>>,
     \* cotton: optimal_soil ['Black', 'Alluvial']
     <<<<99, 111, 116, 116, 111, 110>>, [min |-> 1200, max |-> 2200, avg |-> 1500, n_tips |-> 4,
        optimal_soil |-> <<<<66, 108, 97, 99, 107>>, <<65, 108, 108, 117, 118, 105, 97, 108>>>>]>>,
     \* sugarcane: optimal_soil ['Alluvial', 'Loamy', 'Black']
     <<<<115, 117, 103, 97, 114, 99, 97, 110, 101>>, [min |-> 50000, max |-> 100000, avg |-> 75000, n_tips |-> 4,
        optimal_soil |-> <<<<65, 108, 108, 117, 118, 105, 97, 108>>, <<76, 111, 97, 109, 121>>, <<66, 108, 97, 99, 107>>>>]>>,
     \* groundnut: optimal_soil ['Sandy loam', 'Red', 'Loamy']
     <<<<103, 114, 111, 117, 110, 100, 110, 117, 116>>, [min |-> 1000, max |-> 2500, avg |-> 1500, n_tips |-> 4,
        optimal_soil |-> <<<<83, 97, 110, 100, 121, 32, 108, 111, 97, 109>>, <<82, 101, 100>>, <<76, 111, 97, 109, 121>>>>]>>,
     \* soybean: optimal_soil ['Black', 'Alluvial', 'Loamy']
     <<<<115, 111, 121, 98, 101, 97, 110>>, [min |-> 1500, max |-> 2500, avg |-> 2000, n_tips |-> 4,
        optimal_soil |-> <<<<66, 108, 97, 99, 107>>, <<65, 108, 108, 117, 118, 105, 97, 108>>, <<76, 111, 97, 109, 121>>>>]>>,
     \* maize: optimal_soil ['Loamy', 'Alluvial', 'Black']
     <<<<109, 97, 105, 122, 101>>, [min |-> 2500, max |-> 6000, avg |-> 4000, n_tips |-> 4,
        optimal_soil |-> <<<<76, 111, 97, 109, 121>>, <<65, 108, 108, 117, 118, 105, 97, 108>>, <<66, 108, 97, 99, 107>>>>]>>,
     \* bajra: optimal_soil ['Sandy', 'Sandy loam', 'Light soils']
     <<<<98, 97, 106, 114, 97>>, [min |-> 800, max |-> 2000, avg |-> 1200, n_tips |-> 4,
        optimal_soil |-> <<<<83, 97, 110, 100, 121>>, <<83, 97, 110, 100, 121, 32, 108, 111, 97, 109>>, <<76, 105, 103, 104, 116, 32, 115, 111, 105, 108, 115>>>>]>>,
     \* jowar: optimal_soil ['Black', 'Clay loam', 'Medium black']
     <<<<106, 111, 119, 97, 114>>, [min |-> 1000, max |-> 3000, avg |-> 1500, n_tips |-> 4,
        optimal_soil |-> <<<<66, 108, 97, 99, 107>>, <<67, 108, 97, 121, 32, 108, 111, 97, 109>>, <<77, 101, 100, 105, 117, 109, 32, 98, 108, 97, 99, 107>>>>]>> 
  >>

get_crop_info(crop_name) == Get(CROP_KNOWLEDGE, strip(lower(crop_name)))

get_state_info(state_name) == Get(STATE_AGRI_INFO, strip(lower(state_name)))

\* ------------------------------------------------------- detect_language
hindi_words ==
  << <<107, 121, 97>>,                     \* kya
     <<104, 97, 105>>,                     \* hai
     <<109, 101, 114, 97>>,                \* mera
     <<109, 101, 114, 105>>,               \* meri
     <<107, 97, 105, 115, 101>>,           \* kaise
     <<107, 97, 114, 111>>,                \* karo
     <<107, 97, 114, 110, 97>>,            \* karna
     <<102, 97, 115, 97, 108>>,            \* fasal
     <<107, 104, 101, 116, 105>>,          \* kheti
     <<112, 97, 110, 105>>,                \* pani
     <<98, 97, 97, 114, 105, 115, 104>> >> \* baarish

\* characters of the Telugu block U+0C00..U+0C7F
telugu_chars(text) ==
  Cardinality({i \in 1..Len(text) : 3072 <= text[i] /\ text[i] <= 3199})

\* characters of the Devanagari block U+0900..U+097F
hindi_chars(text) ==
  Cardinality({i \in 1..Len(text) : 2304 <= text[i] /\ text[i] <= 2431})

\* the thresholds taken as "at least 15 per cent"
detect_language_inclusive(text) ==
  IF Len(text) = 0 THEN "en"
  ELSE IF telugu_chars(text) * 100 >= 15 * Len(text) THEN "te"
  ELSE IF hindi_chars(text) * 100 >= 15 * Len(text) THEN "hi"
  ELSE IF \E w \in 1..Len(hindi_words) : Contains(hindi_words[w], lower(text)) THEN "hi"
  ELSE "en"

\* n / total > 0.15
detect_language(text) ==
  IF Len(text) = 0 THEN "en"
  ELSE IF telugu_chars(text) * 100 > 15 * Len(text) THEN "te"
  ELSE IF hindi_chars(text) * 100 > 15 * Len(text) THEN "hi"
  ELSE IF \E w \in 1..Len(hindi_words) : Contains(hindi_words[w], lower(text)) THEN "hi"
  ELSE "en"

\* -------------------------------------------------- get_state_from_location
\* the first district of the map found in the lower-cased location, else the
\* first state of STATE_AGRI_INFO found in it, else the lower-cased location;
\* first_match is one of the two for loops: the column of the first entry of a
\* table whose name is found in the text
first_match(table, text, column) ==
  LET found == {i \in 1..Len(table) : Contains(table[i][1], text)} IN
  IF found = {} THEN None
  ELSE Some(table[CHOOSE i \in found : \A j \in found : i <= j][column])

\* the state of the district found, else the state found, else the location
state_or_location(district_state, state, location_lower) ==
  IF district_state # None THEN The(district_state)
  ELSE IF state # None THEN The(state)
  ELSE location_lower

get_state_from_location(location) ==
  state_or_location(first_match(district_state_map, lower(location), 2),
                    first_match(STATE_AGRI_INFO, lower(location), 1),
                    lower(location))

\* ---------------------------------------------------------- weather tables
\* Coordinates are in ten-thousandths of a degree.
\* weather_service.py INDIA_LOCATIONS, in dictionary order: <<state, coordinates>>
INDIA_LOCATIONS ==
  <<
     <<<<97, 110, 100, 104, 114, 97, 32, 112, 114, 97, 100, 101, 115, 104>>, [lat |-> 165062, lon |-> 806480]>>,  \* andhra pradesh
     <<<<116, 101, 108, 97, 110, 103, 97, 110, 97>>, [lat |-> 173850, lon |-> 784867]>>,  \* telangana
     <<<<112, 117, 110, 106, 97, 98>>, [lat |-> 307333, lon |-> 767794]>>,  \* punjab
     <<<<104, 97, 114, 121, 97, 110, 97>>, [lat |-> 307333, lon |-> 767794]>>,  \* haryana
     <<<<117, 116, 116, 97, 114, 32, 112, 114, 97, 100, 101, 115, 104>>, [lat |-> 268467, lon |-> 809462]>>,  \* uttar pradesh
     <<<<109, 97, 104, 97, 114, 97, 115, 104, 116, 114, 97>>, [lat |-> 190760, lon |-> 728777]>>,  \* maharashtra
     <<<<109, 97, 100, 104, 121, 97, 32, 112, 114, 97, 100, 101, 115, 104>>, [lat |-> 232599, lon |-> 774126]>>,  \* madhya pradesh
     <<<<103, 117, 106, 97, 114, 97, 116>>, [lat |-> 230225, lon |-> 725714]>>,  \* gujarat
     <<<<114, 97, 106, 97, 115, 116, 104, 97, 110>>, [lat |-> 269124, lon |-> 757873]>>,  \* rajasthan
     <<<<107, 97, 114, 110, 97, 116, 97, 107, 97>>, [lat |-> 129716, lon |-> 775946]>>,  \* karnataka
     <<<<116, 97, 109, 105, 108, 32, 110, 97, 100, 117>>, [lat |-> 130827, lon |-> 802707]>>,  \* tamil nadu
     <<<<119, 101, 115, 116, 32, 98, 101, 110, 103, 97, 108>>, [lat |-> 225726, lon |-> 883639]>>,  \* west bengal
     <<<<98, 105, 104, 97, 114>>, [lat |-> 255941, lon |-> 851376]>>,  \* bihar
     <<<<111, 100, 105, 115, 104, 97>>, [lat |-> 202961, lon |-> 858245]>>,  \* odisha
     <<<<107, 101, 114, 97, 108, 97>>, [lat |-> 85241, lon |-> 769366]>>,  \* kerala
     <<<<97, 115, 115, 97, 109>>, [lat |-> 261445, lon |-> 917362]>>,  \* assam
     <<<<106, 104, 97, 114, 107, 104, 97, 110, 100>>, [lat |-> 233441, lon |-> 853096]>>,  \* jharkhand
     <<<<99, 104, 104, 97, 116, 116, 105, 115, 103, 97, 114, 104>>, [lat |-> 212514, lon |-> 816296]>>,  \* chhattisgarh
     <<<<117, 116, 116, 97, 114, 97, 107, 104, 97, 110, 100>>, [lat |-> 303165, lon |-> 780322]>>,  \* uttarakhand
     <<<<104, 105, 109, 97, 99, 104, 97, 108, 32, 112, 114, 97, 100, 101, 115, 104>>, [lat |-> 311048, lon |-> 771734]>>  \* himachal pradesh
  >>

\* weather_service.py DISTRICT_COORDS, in dictionary order: <<district, coordinates>>
DISTRICT_COORDS ==
  <<
     <<<<103, 117, 110, 116, 117, 114>>, [lat |-> 163067, lon |-> 804365]>>,  \* guntur
     <<<<107, 114, 105, 115, 104, 110, 97>>, [lat |-> 166100, lon |-> 807214]>>,  \* krishna
     <<<<101, 97, 115, 116, 32, 103, 111, 100, 97, 118, 97, 114, 105>>, [lat |-> 170000, lon |-> 820000]>>,  \* east godavari
     <<<<119, 101, 115, 116, 32, 103, 111, 100, 97, 118, 97, 114, 105>>, [lat |-> 169174, lon |-> 813399]>>,  \* west godavari
     <<<<107, 117, 114, 110, 111, 111, 108>>, [lat |-> 158281, lon |-> 780373]>>,  \* kurnool
     <<<<97, 110, 97, 110, 116, 97, 112, 117, 114>>, [lat |-> 146819, lon |-> 776006]>>,  \* anantapur
     <<<<107, 97, 114, 105, 109, 110, 97, 103, 97, 114>>, [lat |-> 184386, lon |-> 791288]>>,  \* karimnagar
     <<<<119, 97, 114, 97, 110, 103, 97, 108>>, [lat |-> 179784, lon |-> 795941]>>,  \* warangal
     <<<<110, 105, 122, 97, 109, 97, 98, 97, 100>>, [lat |-> 186725, lon |-> 780941]>>,  \* nizamabad
     <<<<107, 104, 97, 109, 109, 97, 109>>, [lat |-> 172473, lon |-> 801514]>>,  \* khammam
     <<<<108, 117, 100, 104, 105, 97, 110, 97>>, [lat |-> 309010, lon |-> 758573]>>,  \* ludhiana
     <<<<97, 109, 114, 105, 116, 115, 97, 114>>, [lat |-> 316340, lon |-> 748723]>>,  \* amritsar
     <<<<106, 97, 108, 97, 110, 100, 104, 97, 114>>, [lat |-> 313260, lon |-> 755762]>>,  \* jalandhar
     <<<<112, 97, 116, 105, 97, 108, 97>>, [lat |-> 303398, lon |-> 763869]>>,  \* patiala
     <<<<109, 101, 101, 114, 117, 116>>, [lat |-> 289845, lon |-> 777064]>>,  \* meerut
     <<<<108, 117, 99, 107, 110, 111, 119>>, [lat |-> 268467, lon |-> 809462]>>,  \* lucknow
     <<<<97, 103, 114, 97>>, [lat |-> 271767, lon |-> 780081]>>,  \* agra
     <<<<118, 97, 114, 97, 110, 97, 115, 105>>, [lat |-> 253176, lon |-> 829739]>>,  \* varanasi
     <<<<103, 111, 114, 97, 107, 104, 112, 117, 114>>, [lat |-> 267606, lon |-> 833732]>>,  \* gorakhpur
     <<<<110, 97, 103, 112, 117, 114>>, [lat |-> 211458, lon |-> 790882]>>,  \* nagpur
     <<<<112, 117, 110, 101>>, [lat |-> 185204, lon |-> 738567]>>,  \* pune
     <<<<110, 97, 115, 104, 105, 107>>, [lat |-> 199975, lon |-> 737898]>>,  \* nashik
     <<<<107, 111, 108, 104, 97, 112, 117, 114>>, [lat |-> 167050, lon |-> 742433]>>,  \* kolhapur
     <<<<97, 104, 109, 101, 100, 97, 98, 97, 100>>, [lat |-> 230225, lon |-> 725714]>>,  \* ahmedabad
     <<<<114, 97, 106, 107, 111, 116>>, [lat |-> 223039, lon |-> 708022]>>,  \* rajkot
     <<<<115, 117, 114, 97, 116>>, [lat |-> 211702, lon |-> 728311]>>,  \* surat
     <<<<106, 97, 105, 112, 117, 114>>, [lat |-> 269124, lon |-> 757873]>>,  \* jaipur
     <<<<106, 111, 100, 104, 112, 117, 114>>, [lat |-> 262389, lon |-> 730243]>>,  \* jodhpur
     <<<<98, 105, 107, 97, 110, 101, 114>>, [lat |-> 280229, lon |-> 733119]>>,  \* bikaner
     <<<<98, 101, 108, 103, 97, 117, 109>>, [lat |-> 158497, lon |-> 744977]>>,  \* belgaum
     <<<<109, 121, 115, 111, 114, 101>>, [lat |-> 122958, lon |-> 766394]>>,  \* mysore
     <<<<100, 104, 97, 114, 119, 97, 100>>, [lat |-> 154589, lon |-> 750078]>>,  \* dharwad
     <<<<99, 104, 101, 110, 110, 97, 105>>, [lat |-> 130827, lon |-> 802707]>>,  \* chennai
     <<<<99, 111, 105, 109, 98, 97, 116, 111, 114, 101>>, [lat |-> 110168, lon |-> 769558]>>,  \* coimbatore
     <<<<109, 97, 100, 117, 114, 97, 105>>, [lat |-> 99252, lon |-> 781198]>>,  \* madurai
     <<<<116, 104, 97, 110, 106, 97, 118, 117, 114>>, [lat |-> 107870, lon |-> 791378]>>  \* thanjavur
  >>

\* the first entry of a table, in its order, whose name is found in the text
first_in(table, text) ==
  LET found == {i \in 1..Len(table) : Contains(table[i][1], text)} IN
  IF found = {} THEN None
  ELSE Some(table[CHOOSE i \in found : \A j \in found : i <= j][2])

\* the states looked through before the districts
get_coordinates_states_first(location) ==
  LET location_lower == strip(lower(location)) IN
  IF first_in(INDIA_LOCATIONS, location_lower) # None
  THEN first_in(INDIA_LOCATIONS, location_lower)
  ELSE first_in(DISTRICT_COORDS, location_lower)

\* WeatherService.get_coordinates: the coordinates of the first district found
\* in the lower-cased, stripped location, else of the first state, else None
get_coordinates(location) ==
  LET location_lower == strip(lower(location)) IN
  IF first_in(DISTRICT_COORDS, location_lower) # None
  THEN first_in(DISTRICT_COORDS, location_lower)
  ELSE first_in(INDIA_LOCATIONS, location_lower)

\* ------------------------------------------------------------ the service
VARIABLES
  EMERGENT_LLM_KEY,  \* server.py: the API key read from the environment at start
  ML_MODEL_LOADED,   \* server.py: whether the model artifacts were loaded at start
  yield_model,       \* server.py: the regressor read at start, None when loading failed
  encoders,          \* server.py: the label encoders read at start, None when loading failed
  model_stats,       \* server.py: the training statistics read at start, None when loading failed
  crop_data,         \* server.py: the crop table read at start, None when loading failed
  db_sessions,       \* MongoDB collection sessions, in insertion order
  db_messages,       \* MongoDB collection messages, in insertion order
  chat_sessions,     \* server.py: session_id -> LlmChat
  requests,          \* the chat requests: where each handler stands, and its locals
  created,           \* what create_session has returned so far, in order
  last_response,     \* the answer of the last request other than chat
  now,               \* the wall clock read by datetime.utcnow()
  uuid_counter,      \* how many values uuid.uuid4() has returned
  weather_call       \* the weather request: where get_weather stands, and its locals

vars == <<EMERGENT_LLM_KEY, ML_MODEL_LOADED, yield_model, encoders, model_stats, crop_data, db_sessions, db_messages,
          chat_sessions, requests, created, last_response, now, uuid_counter,
          weather_call>>

\* what startup may find in the environment
ApiKeys == {"", "your_key_here", "sk-proj-key", "sk-or-v1-key"}
\* str.startswith("sk-or-v1") on the keys above
IsOpenRouterKey(api_key) == api_key = "sk-or-v1-key"

\* rows of data/india_crop_data.csv, the columns predict_yield_ml reads
SampleCropData ==
  { [Crop |-> <<82, 105, 99, 101>>, State |-> <<80, 117, 110, 106, 97, 98>>,
     Yield_Kg_Ha |-> 4200],                                   \* Rice, Punjab
    [Crop |-> <<82, 105, 99, 101>>, State |-> <<66, 105, 104, 97, 114>>,
     Yield_Kg_Ha |-> 2600] }                                  \* Rice, Bihar

\* what models/yield_model.pkl, encoders.pkl and model_stats.pkl may hold: a
\* tree with one split (feature number, threshold, the two leaves in
\* thousandths of kg/ha), the classes of the encoders as train_model.py sorts
\* them, and the test score in ten-thousandths. The leaves of a regressor
\* trained on Yield_Kg_Ha are averages of yields of the data file.
TitleEncoders ==
  [Crop |-> << <<82, 105, 99, 101>>, <<87, 104, 101, 97, 116>> >>,       \* Rice, Wheat
   Soil_Type |-> << <<65, 108, 108, 117, 118, 105, 97, 108>>,            \* Alluvial
                    <<66, 108, 97, 99, 107>> >>,                         \* Black
   Season |-> << <<75, 104, 97, 114, 105, 102>>, <<82, 97, 98, 105>> >>] \* Kharif, Rabi
LowerCropEncoders ==
  [TitleEncoders EXCEPT
     !.Crop = << <<114, 105, 99, 101>>, <<119, 104, 101, 97, 116>> >>]   \* rice, wheat
Artifacts ==
  { [yield_model |-> [feature |-> 7, threshold |-> 50,
                      left |-> 2875437, right |-> 3912664],
     encoders |-> TitleEncoders, model_stats |-> [test_score |-> 9581]],
    [yield_model |-> [feature |-> 7, threshold |-> 50,
                      left |-> 2875437, right |-> 3912664],
     encoders |-> LowerCropEncoders, model_stats |-> [test_score |-> 8734]],
    [yield_model |-> [feature |-> 3, threshold |-> 0,
                      left |-> 3105252, right |-> 4000000],
     encoders |-> TitleEncoders, model_stats |-> [test_score |-> -2000]] }

\* ----------------------------------------------------------- message text
\* A composed text: which template it is, and what fills the template.
Text(tag, lang, ctx, text) == [tag |-> tag, lang |-> lang, ctx |-> ctx, text |-> text]
\* the farmer's own words
Raw(text) == Text("raw", "", <<>>, text)
NoText == Text("", "", <<>>, <<>>)
SYSTEM_PROMPT == Text("system", "", <<>>, <<>>)
\* chat.py: "I am a mock AI assistant. Please provide a valid API Key ..."
MockResponse == Text("mock", "", <<>>, <<>>)
\* chat.py: "I encountered an error connecting to the AI service. Details: ..."
ApiErrorText == Text("api_error", "", <<>>, <<>>)
\* chat.py: "Sorry, I am having trouble connecting to the server. Error: ..."
ConnectErrorText == Text("connect_error", "", <<>>, <<>>)
\* what the provider answers to a payload: a completion for its last message
Completion(messages) ==
  LET q == messages[Len(messages)].content IN Text("completion", q.lang, q.ctx, q.text)

\* ------------------------------------------------------- predict_yield_ml
\* Numbers: a yield, an average and a confidence that the code rounds with
\* round(x, 2) are kept in hundredths; rainfall, irrigation, fertilizer and
\* temperature are whole numbers.

\* round(n / d) for d > 0, a tie going to the even neighbour as in Python
RoundHalfEven(n, d) ==
  LET q == n \div d
      r == n % d
  IN IF 2 * r > d \/ (2 * r = d /\ q % 2 = 1) THEN q + 1 ELSE q

\* re.compile(pattern) succeeds; of the regular-expression syntax errors, the
\* unbalanced parenthesis and the leading quantifier
re_compiles(pattern) ==
  /\ Cardinality({i \in 1..Len(pattern) : pattern[i] = 40})
       = Cardinality({i \in 1..Len(pattern) : pattern[i] = 41})
  /\ (Len(pattern) > 0 => pattern[1] \notin {42, 43, 63})

rainfall_avg_or(state_info, default) ==
  IF state_info # None THEN The(state_info).rainfall_avg ELSE default

default_rainfall(farm_input) ==
  rainfall_avg_or(get_state_info(get_state_from_location(farm_input.location)), 900)

\* default_yield: the crop's average yield, 3000 for a crop that is not known
avg_or(crop_info, default) ==
  IF crop_info # None THEN The(crop_info).avg ELSE default

\* the average taken for the whole area of the farm
default_yield_per_area(farm_input) ==
  avg_or(get_crop_info(farm_input.crop_type), 3000) * OrNum(farm_input.area_hectares, 1)

default_yield(farm_input) == avg_or(get_crop_info(farm_input.crop_type), 3000)

\* rainfall = farm_input.rainfall_mm or default_rainfall, and so on
rainfall_of(farm_input) == OrNum(farm_input.rainfall_mm, default_rainfall(farm_input))
irrigation_of(farm_input) == OrNum(farm_input.irrigation_percent, 60)
fertilizer_of(farm_input) == OrNum(farm_input.fertilizer_kg_ha, 150)
temperature_of(farm_input) == OrNum(farm_input.temperature_c, 27)

\* LabelEncoder: classes_ is the sorted sequence of the labels seen in training
\* `value in encoder.classes_`
in_classes(classes, value) == \E i \in 1..Len(classes) : classes[i] = value
\* `value in [s.lower() for s in encoder.classes_]`
in_lower_classes(classes, value) == \E i \in 1..Len(classes) : lower(classes[i]) = value
\* encoder.transform([value])[0] raises ValueError on a label it has not seen
transform_raises(classes, value) == ~in_classes(classes, value)
transform(classes, value) == (CHOOSE i \in 1..Len(classes) : classes[i] = value) - 1

\* encodings that raise for a key that is not among the classes as well
encode_strict(farm_input) ==
  LET enc == The(encoders)
      crop_key == strip(lower(farm_input.crop_type))
      soil_key == strip(lower(farm_input.soil_type))
      season_key == strip(lower(farm_input.season))
  IN [raised |-> \/ transform_raises(enc.Crop, title(crop_key))
                 \/ ~in_classes(enc.Crop, crop_key)
                 \/ transform_raises(enc.Soil_Type, title(soil_key))
                 \/ transform_raises(enc.Season, title(season_key)),
      crop_encoded |-> 0, soil_encoded |-> 0, season_encoded |-> 0]

\* the three encodings of the model path: whether one of them raises, and the codes
encode(farm_input) ==
  LET enc == The(encoders)
      crop_key == strip(lower(farm_input.crop_type))
      soil_key == strip(lower(farm_input.soil_type))
      season_key == strip(lower(farm_input.season))
      crop_known == in_classes(enc.Crop, crop_key)
      soil_known == in_lower_classes(enc.Soil_Type, soil_key)
      season_known == in_lower_classes(enc.Season, season_key)
  IN [raised |-> \/ crop_known /\ transform_raises(enc.Crop, title(crop_key))
                 \/ soil_known /\ transform_raises(enc.Soil_Type, title(soil_key))
                 \/ season_known /\ transform_raises(enc.Season, title(season_key)),
      crop_encoded |-> IF crop_known /\ ~transform_raises(enc.Crop, title(crop_key))
                       THEN transform(enc.Crop, title(crop_key)) ELSE 0,
      soil_encoded |-> IF soil_known /\ ~transform_raises(enc.Soil_Type, title(soil_key))
                       THEN transform(enc.Soil_Type, title(soil_key)) ELSE 0,
      season_encoded |-> IF season_known /\ ~transform_raises(enc.Season, title(season_key))
                         THEN transform(enc.Season, title(season_key)) ELSE 0]

\* the feature row: state, district, crop, season, soil, rainfall, irrigation,
\* fertilizer, temperature
features_of(codes, rainfall, irrigation, fertilizer, temperature) ==
  <<0, 0, codes.crop_encoded, codes.season_encoded, codes.soil_encoded,
    rainfall, irrigation, fertilizer, temperature>>

features(farm_input) ==
  features_of(encode(farm_input), rainfall_of(farm_input), irrigation_of(farm_input),
              fertilizer_of(farm_input), temperature_of(farm_input))

\* yield_model.predict(features)[0] of a tree with one split, in thousandths
model_predict(model, row) ==
  IF row[model.feature] <= model.threshold THEN model.left ELSE model.right

\* the except branch for a known crop:
\*   base_yield * (1.0 + (irrigation - 50) / 100 * 0.3)
\*              * (1.0 if 600 < rainfall < 1200 else 0.85)
\*              * (1.0 + (fertilizer - 100) / 200 * 0.2)
\* in hundredths. The product is base * a * m / 20000000 with
\* a = 1000 + 3 * (irrigation - 50) and m = (20 or 17) * (1000 + fertilizer - 100);
\* it is formed in two parts of four digits to stay within 32 bits. The code
\* computes in binary floating point, which can differ from this in a tie of
\* the rounding only.
interpolated_yield(base_yield, irrigation, rainfall, fertilizer) ==
  LET a == 1000 + 3 * (irrigation - 50)
      m == (IF 600 < rainfall /\ rainfall < 1200 THEN 20 ELSE 17) * (1000 + fertilizer - 100)
      P == base_yield * a
      A == (P \div 10000) * m
      B == (P % 10000) * m
      A1 == A + (B \div 10000)
      b0 == B % 10000
      q == A1 \div 20
      R == (A1 % 20) * 10000 + b0
  IN IF 2 * R > 200000 \/ (2 * R = 200000 /\ q % 2 = 1) THEN q + 1 ELSE q

\* the interpolation as it comes, not held within the range of the crop
unclamped_yield(yield_range, predicted_yield) == predicted_yield

\* max(yield_range['min'], min(yield_range['max'], predicted_yield)), in hundredths
clamp_yield(yield_range, predicted_yield) ==
  Max(yield_range.min * 100, Min(yield_range.max * 100, predicted_yield))

\* the interpolation on every path, whether or not the model is loaded
yield_interpolated(farm_input) ==
  LET crop_info == get_crop_info(farm_input.crop_type) IN
  [path |-> "fallback",
   predicted_yield |->
     IF crop_info # None
     THEN clamp_yield(The(crop_info),
                      interpolated_yield(The(crop_info).avg, irrigation_of(farm_input),
                                         rainfall_of(farm_input),
                                         fertilizer_of(farm_input)))
     ELSE 3000 * 100,
   confidence |-> 75]

\* lines 280-331: which path was taken, round(predicted_yield, 2) in hundredths,
\* round(confidence, 2) in hundredths
yield_and_confidence_of(farm_input, crop_info, by_default) ==
  IF ~(ML_MODEL_LOADED /\ yield_model # None) THEN by_default
  ELSE IF encode(farm_input).raised
  THEN IF crop_info # None
       THEN [path |-> "fallback",
             predicted_yield |->
               clamp_yield(The(crop_info),
                           interpolated_yield(The(crop_info).avg,
                                              irrigation_of(farm_input),
                                              rainfall_of(farm_input),
                                              fertilizer_of(farm_input))),
             confidence |-> 75]
       ELSE [by_default EXCEPT !.path = "fallback"]
  ELSE [path |-> "model",
        predicted_yield |->
          RoundHalfEven(model_predict(The(yield_model), features(farm_input)), 10),
        confidence |->
          RoundHalfEven(Min(9200, The(model_stats).test_score), 100)]

yield_and_confidence(farm_input) ==
  yield_and_confidence_of(farm_input, get_crop_info(farm_input.crop_type),
                          [path |-> "default",
                           predicted_yield |-> default_yield(farm_input) * 100,
                           confidence |-> 75])

\* predicted_yield * 0.0404686 / 10, rounded to hundredths: x * 404686 / 10^8
\* for x in hundredths, formed in parts of three digits
quintal_acre(x) ==
  LET x1 == x \div 1000
      x0 == x % 1000
      T0 == x0 * 686
      T1 == x1 * 686 + x0 * 404
      T2 == x1 * 404
      c1 == T1 + (T0 \div 1000)
      r0 == T0 % 1000
      c2 == T2 + (c1 \div 1000)
      r1 == c1 % 1000
      q == c2 \div 100
      R == (c2 % 100) * 1000000 + r1 * 1000 + r0
  IN IF 2 * R > 100000000 \/ (2 * R = 100000000 /\ q % 2 = 1) THEN q + 1 ELSE q

\* a score whose thresholds take the boundary values in
risk_score_inclusive(irrigation, rainfall, fertilizer) ==
    (IF irrigation <= 40 THEN 2 ELSE 0)
  + (IF rainfall <= 500 THEN 2 ELSE IF rainfall >= 1500 THEN 1 ELSE 0)
  + (IF fertilizer <= 80 THEN 1 ELSE 0)

risk_score(irrigation, rainfall, fertilizer) ==
    (IF irrigation < 40 THEN 2 ELSE 0)
  + (IF rainfall < 500 THEN 2 ELSE IF rainfall > 1500 THEN 1 ELSE 0)
  + (IF fertilizer < 80 THEN 1 ELSE 0)

\* a grading with a fourth level above "High"
risk_level_graded(score) ==
  IF score >= 5 THEN "Critical"
  ELSE IF score >= 3 THEN "High" ELSE IF score >= 1 THEN "Medium" ELSE "Low"

risk_level(score) ==
  IF score >= 3 THEN "High" ELSE IF score >= 1 THEN "Medium" ELSE "Low"

\* the whole list, whatever its length
Whole(sequence, n) == sequence

\* sequence[:n]
Slice(sequence, n) == SubSeq(sequence, 1, Min(n, Len(sequence)))

\* the rows of crop_data of the input's crop
crop_match(farm_input) ==
  IF crop_data = None THEN {}
  ELSE {row \in The(crop_data) : lower(row.Crop) = lower(farm_input.crop_type)}

\* Series.str.contains(state_name[:5]) compiles its argument as a regular
\* expression and raises re.error when it is none
state_match_raises(farm_input) ==
  /\ crop_match(farm_input) # {}
  /\ ~re_compiles(Slice(get_state_from_location(farm_input.location), 5))

\* the rows of crop_match whose lower-cased State holds state_name[:5]; a
\* pattern of letters and spaces is searched as it stands
rows_of_state(rows, pattern) == {row \in rows : Contains(pattern, lower(row.State))}

state_match(farm_input) ==
  rows_of_state(crop_match(farm_input),
                Slice(get_state_from_location(farm_input.location), 5))

RECURSIVE sum_yield(_)
sum_yield(rows) ==
  IF rows = {} THEN 0
  ELSE LET row == CHOOSE row \in rows : TRUE IN
       row.Yield_Kg_Ha + sum_yield(rows \ {row})

\* round(rows['Yield_Kg_Ha'].mean(), 2) in hundredths, None for no row and for
\* a mean of 0, which is falsy
mean_yield(rows) ==
  IF rows = {} \/ sum_yield(rows) = 0 THEN None
  ELSE Some(RoundHalfEven(sum_yield(rows) * 100, Cardinality(rows)))

\* lines 372-395: the factors, before the slice; a detail is the figure the
\* f-string fills in and the words after it (the Soil Type details name the
\* soil, and the crop they also name is left out)
factor_of(factor, impact, figure, text) ==
  [factor |-> factor, impact |-> impact, detail |-> [figure |-> figure, text |-> text]]

factors_of(irrigation, rainfall, fertilizer, crop_info, soil_type) ==
        << IF irrigation >= 70
           THEN factor_of("Irrigation", "Positive", irrigation,
                          "% coverage - excellent water availability")
           ELSE IF irrigation >= 40
           THEN factor_of("Irrigation", "Moderate", irrigation,
                          "% coverage - adequate but can improve")
           ELSE factor_of("Irrigation", "Negative", irrigation,
                          "% coverage - insufficient, consider bore wells") >>
     \o << IF 600 < rainfall /\ rainfall < 1200
           THEN factor_of("Rainfall", "Positive", rainfall, "mm - optimal range")
           ELSE factor_of("Rainfall", "Risk", rainfall,
                          IF rainfall < 600 THEN "mm - below optimal"
                          ELSE "mm - above optimal") >>
     \o (IF crop_info = None THEN <<>>
         ELSE << IF \E i \in 1..Len(The(crop_info).optimal_soil) :
                      The(crop_info).optimal_soil[i] = title(soil_type)
                 THEN factor_of("Soil Type", "Positive", soil_type, " is ideal for")
                 ELSE factor_of("Soil Type", "Moderate", soil_type,
                                " - consider soil amendments") >>)
     \o << factor_of("Fertilizer", IF fertilizer >= 120 THEN "Positive" ELSE "Moderate",
                     fertilizer, " kg/ha applied") >>

factors(farm_input) ==
  factors_of(irrigation_of(farm_input), rainfall_of(farm_input), fertilizer_of(farm_input),
             get_crop_info(farm_input.crop_type), farm_input.soil_type)

\* lines 397-413: the recommendations, before the slice; tip n is the n-th of
\* the crop's tips
recommendations_of(crop_info, irrigation, level) ==
        (IF crop_info = None THEN <<>>
         ELSE    << [kind |-> "Recommended fertilizer", n |-> 0] >>
              \o [n \in 1..Min(2, The(crop_info).n_tips) |-> [kind |-> "tip", n |-> n]])
     \o (IF irrigation < 50
         THEN << [kind |-> "drip irrigation", n |-> 0] >> ELSE <<>>)
     \o (IF level = "High" THEN << [kind |-> "crop insurance", n |-> 0] >> ELSE <<>>)
     \o << [kind |-> "Soil Health Card", n |-> 0] >>

recommendations(farm_input, level) ==
  recommendations_of(get_crop_info(farm_input.crop_type), irrigation_of(farm_input), level)

\* lines 415-423, on the rounded values
comparison(predicted_yield, national_avg) ==
  IF national_avg = None THEN ""
  ELSE IF predicted_yield * 10 > The(national_avg) * 11 THEN "above national average"
  ELSE IF predicted_yield * 10 < The(national_avg) * 9 THEN "below national average"
  ELSE "near national average"

\* the return statement, on the locals of predict_yield_ml
MLPrediction_of(farm_input, level, predicted, national_avg) ==
  [predicted_yield_kg_ha |-> predicted.predicted_yield,
   predicted_yield_quintal_acre |-> quintal_acre(predicted.predicted_yield),
   confidence_score |-> predicted.confidence,
   risk_level |-> level,
   state_avg_yield |-> mean_yield(state_match(farm_input)),
   national_avg_yield |-> national_avg,
   influential_factors |-> Slice(factors(farm_input), 5),
   recommendations |-> Slice(recommendations(farm_input, level), 5),
   crop_info |-> get_crop_info(farm_input.crop_type),
   comparison |-> comparison(predicted.predicted_yield, national_avg),
   data_source |-> "Government of India Agricultural Statistics"]

MLPrediction(farm_input) ==
  MLPrediction_of(farm_input,
                  risk_level(risk_score(irrigation_of(farm_input), rainfall_of(farm_input),
                                        fertilizer_of(farm_input))),
                  yield_and_confidence(farm_input),
                  mean_yield(crop_match(farm_input)))

\* a prediction that shifts with the number of stored messages
predict_yield_ml_counted(farm_input) ==
  IF state_match_raises(farm_input)
  THEN [raised |-> TRUE, value |-> None]
  ELSE [raised |-> FALSE,
        value |-> Some([MLPrediction(farm_input) EXCEPT
                          !.predicted_yield_kg_ha = @ + Len(db_messages)])]

\* The MLPrediction, or the exception predict_yield_ml ends with.
predict_yield_ml(farm_input) ==
  IF state_match_raises(farm_input)
  THEN [raised |-> TRUE, value |-> None]
  ELSE [raised |-> FALSE, value |-> Some(MLPrediction(farm_input))]

\* ------------------------------------------------------------- LlmChat
\* LlmChat(api_key, session_id, system_message).with_model("openai", "gpt-4o")
LlmChat(api_key, session_id, system_message) ==
  [api_key |-> api_key, session_id |-> session_id, system_message |-> system_message,
   model |-> "gpt-4o",
   history |-> << [role |-> "system", content |-> system_message] >>]

\* a test that takes the placeholder for a key
empty_api_key(api_key) == api_key = ""

\* `not self.api_key or self.api_key == "your_key_here"`
no_api_key(api_key) == api_key = "" \/ api_key = "your_key_here"

\* send_message up to the point where it waits for the provider: the history
\* after it, whether the call has returned, what it returned, the POST issued
send_message_begin(chat, text) ==
  LET h == Append(chat.history, [role |-> "user", content |-> text]) IN
  IF no_api_key(chat.api_key)
  THEN [history |-> Append(h, [role |-> "assistant", content |-> MockResponse]),
        returned |-> TRUE, value |-> MockResponse, post |-> None]
  ELSE [history |-> h, returned |-> FALSE, value |-> NoText,
        post |-> Some([url |-> IF IsOpenRouterKey(chat.api_key)
                               THEN "https://openrouter.ai/api/v1/chat/completions"
                               ELSE "https://api.openai.com/v1/chat/completions",
                       model |-> IF IsOpenRouterKey(chat.api_key) /\ chat.model = "gpt-4o"
                                 THEN "openai/gpt-4o" ELSE chat.model,
                       messages |-> h])]

\* what the provider does with a POST: status 200 and a completion, another
\* status, or no usable answer (a transport error, a body without choices)
Outcomes == {"200", "non200", "exception"}

\* a send_message that posts once more after a failure
send_message_retry(chat, post, outcome) ==
  IF outcome = "200"
  THEN [history |-> Append(chat.history,
                           [role |-> "assistant", content |-> Completion(post.messages)]),
        value |-> Completion(post.messages), posts |-> 0, raised |-> FALSE]
  ELSE IF outcome = "non200"
  THEN [history |-> chat.history, value |-> ApiErrorText, posts |-> 1, raised |-> FALSE]
  ELSE [history |-> chat.history, value |-> ConnectErrorText, posts |-> 1, raised |-> FALSE]

\* a send_message that takes the last entry back after a failure
send_message_rollback(chat, post, outcome) ==
  IF outcome = "200"
  THEN [history |-> Append(chat.history,
                           [role |-> "assistant", content |-> Completion(post.messages)]),
        value |-> Completion(post.messages), posts |-> 0, raised |-> FALSE]
  ELSE [history |-> SubSeq(chat.history, 1, Len(chat.history) - 1),
        value |-> IF outcome = "non200" THEN ApiErrorText ELSE ConnectErrorText,
        posts |-> 0, raised |-> FALSE]

\* a send_message that lets the failure of the POST reach its caller
send_message_raising(chat, post, outcome) ==
  IF outcome = "200"
  THEN [history |-> Append(chat.history,
                           [role |-> "assistant", content |-> Completion(post.messages)]),
        value |-> Completion(post.messages), posts |-> 0, raised |-> FALSE]
  ELSE [history |-> chat.history, value |-> NoText, posts |-> 0, raised |-> TRUE]

\* a send_message that enters the error text into the history as the reply
send_message_error_entry(chat, post, outcome) ==
  IF outcome = "200"
  THEN [history |-> Append(chat.history,
                           [role |-> "assistant", content |-> Completion(post.messages)]),
        value |-> Completion(post.messages), posts |-> 0, raised |-> FALSE]
  ELSE [history |-> Append(chat.history,
                           [role |-> "assistant",
                            content |-> IF outcome = "non200" THEN ApiErrorText
                                        ELSE ConnectErrorText]),
        value |-> IF outcome = "non200" THEN ApiErrorText ELSE ConnectErrorText,
        posts |-> 0, raised |-> FALSE]

\* send_message from the provider's answer on: the history after it, what the
\* call returns, how many more POSTs it issued, and whether it raised: the
\* status check returns the error text and the except returns another
send_message_end(chat, post, outcome) ==
  IF outcome = "200"
  THEN [history |-> Append(chat.history,
                           [role |-> "assistant", content |-> Completion(post.messages)]),
        value |-> Completion(post.messages), posts |-> 0, raised |-> FALSE]
  ELSE IF outcome = "non200"
  THEN [history |-> chat.history, value |-> ApiErrorText, posts |-> 0, raised |-> FALSE]
  ELSE [history |-> chat.history, value |-> ConnectErrorText, posts |-> 0, raised |-> FALSE]

\* a get_or_create_chat that builds a chat on every call
get_or_create_chat_anew(sessions, session_id) ==
  [s \in DOMAIN sessions \cup {session_id} |->
     IF s = session_id THEN LlmChat(EMERGENT_LLM_KEY, session_id, SYSTEM_PROMPT)
     ELSE sessions[s]]

\* get_or_create_chat: chat_sessions after the call
get_or_create_chat(sessions, session_id) ==
  IF session_id \notin DOMAIN sessions
  THEN sessions @@ (session_id :> LlmChat(EMERGENT_LLM_KEY, session_id, SYSTEM_PROMPT))
  ELSE sessions

\* ------------------------------------------------------- the chat handler
\* farm_context: a dictionary, each key absent (None) or present
DictTruthy(farm_context) ==
  /\ farm_context # None
  /\ \E k \in DOMAIN The(farm_context) : The(farm_context)[k] # None

HasFarmKeys(fc) ==
  \A k \in {"crop_type", "soil_type", "season", "location"} : fc[k] # None

\* farm_context.get(key, '')
GetText(fc, key) == IF fc[key] = None THEN <<>> ELSE The(fc[key])

\* the FarmInput the chat handler and build_context_message build from farm_context
FarmInputOf(fc, with_temperature) ==
  [crop_type |-> GetText(fc, "crop_type"), soil_type |-> GetText(fc, "soil_type"),
   season |-> GetText(fc, "season"), location |-> GetText(fc, "location"),
   rainfall_mm |-> fc.rainfall_mm, irrigation_percent |-> fc.irrigation_percent,
   fertilizer_kg_ha |-> fc.fertilizer_kg_ha,
   temperature_c |-> IF with_temperature THEN fc.temperature_c ELSE None,
   area_hectares |-> None]

SeqIf(cond, x) == IF cond THEN <<x>> ELSE <<>>

\* the context_parts of build_context_message: <<heading, the risk level it names>>
context_parts_of(fc, crop_type, location, prediction) ==
     << <<"Farm Details", "">> >>
  \o SeqIf(crop_type # <<>> /\ get_crop_info(crop_type) # None,
           <<"Crop Knowledge", "">>)
  \o SeqIf(location # <<>> /\ get_state_info(get_state_from_location(location)) # None,
           <<"Region Info", "">>)
  \o SeqIf(HasFarmKeys(fc) /\ ~prediction.raised,
           <<"ML Yield Prediction", The(prediction.value).risk_level>>)

context_parts(farm_context) ==
  IF ~DictTruthy(farm_context) THEN <<>>
  ELSE context_parts_of(The(farm_context), GetText(The(farm_context), "crop_type"),
                        GetText(The(farm_context), "location"),
                        predict_yield_ml(FarmInputOf(The(farm_context), TRUE)))

\* "[CONTEXT FOR ASSISTANT ...]\n{parts}\n\n[FARMER'S QUESTION in {language}]: {message}",
\* without the context block when there are no parts
build_context_message(message, farm_context, language) ==
  Text("question", language, context_parts(farm_context), message)

\* a handler that ignores request.language
detect_language_only(language, message) == detect_language(message)

\* request.language or detect_language(request.message)
detected_language_of(language, message) == OrStr(language, detect_language(message))

\* the ml_prediction of the ChatResponse: the try of lines 567-580, whose
\* except leaves None
value_or_none(prediction) == IF prediction.raised THEN None ELSE prediction.value

ml_prediction_of(farm_context) ==
  IF DictTruthy(farm_context) /\ HasFarmKeys(The(farm_context))
  THEN value_or_none(predict_yield_ml(FarmInputOf(The(farm_context), FALSE)))
  ELSE None

ChatMessage(id, session_id, role, content, language, timestamp) ==
  [id |-> id, session_id |-> session_id, role |-> role, content |-> content,
   language |-> language, timestamp |-> timestamp]

\* a handler that stores what it sent to the provider
enriched_content(req) == req.enriched

\* the content stored for the user's message
user_content(req) == Raw(req.message)

\* the two documents the handler builds; each takes the next uuid4() and the
\* next reading of the clock
user_msg_of(req) ==
  ChatMessage(uuid_counter + 1, req.session_id, "user", user_content(req),
              req.detected_language, now + 1)
assistant_msg_of(req, response_text) ==
  ChatMessage(uuid_counter + 2, req.session_id, "assistant", response_text,
              req.detected_language, now + 2)

\* an insert that stamps the document it stores
insert_one_stamped(collection, doc) ==
  Append(collection, [doc EXCEPT !.updated_at = doc.updated_at + 1])

\* insert_many / insert_one on a collection kept in insertion order; an insert
\* stores all its documents or raises and stores none
insert_many(collection, docs) == collection \o docs
insert_one(collection, doc) == Append(collection, doc)

ChatResponse(req) ==
  [response |-> req.response_text, language |-> req.detected_language,
   session_id |-> req.session_id, ml_prediction |-> req.ml_prediction]

NoRequest ==
  [pc |-> "idle", session_id |-> 0, message |-> <<>>, language |-> None,
   farm_context |-> None, detected_language |-> "", enriched |-> NoText,
   overlap |-> FALSE, post |-> None, posts |-> 0, outcome |-> "",
   response_text |-> NoText, ml_prediction |-> None, docs |-> <<>>,
   saved |-> FALSE, status |-> 0, result |-> None]

\* ------------------------------------------- weather_service.py: the advisory
\* The numbers of the provider's payload are kept in tenths (35.1 degrees is
\* 351). None is a JSON null or a missing key: dict.get answers None for both.
\* data = response.json() is
\*   [current |-> [temperature_2m, relative_humidity_2m, wind_speed_10m],
\*    daily |-> None or [time |-> number of days, precipitation_sum |-> list]]
\* the other lists of daily have the length of daily["time"].

\* lines 138-144, the fields the advisories read
current_of(current) ==
  [temperature_c |-> current.temperature_2m,
   humidity_percent |-> current.relative_humidity_2m,
   wind_speed_kmh |-> current.wind_speed_10m]

\* lines 150-159: daily["precipitation_sum"][i] for i in range(min(7, len(time)))
\* raises IndexError on a list shorter than that
forecast_of(daily) ==
  IF daily = None THEN [raised |-> FALSE, value |-> <<>>]
  ELSE IF Len(The(daily).precipitation_sum) < Min(7, The(daily).time)
  THEN [raised |-> TRUE, value |-> <<>>]
  ELSE [raised |-> FALSE,
        value |-> [i \in 1..Min(7, The(daily).time) |->
                     [precipitation_mm |-> The(daily).precipitation_sum[i]]]]

\* an advisory with its three messages: a message is its template, its
\* language and the figure the f-string fills in, if it has one
advisory(type, severity, figure) ==
  [type |-> type, severity |-> severity,
   message_en |-> [template |-> type, language |-> "en", figure |-> figure],
   message_hi |-> [template |-> type, language |-> "hi", figure |-> figure],
   message_te |-> [template |-> type, language |-> "te", figure |-> figure]]

\* current.get("temperature_c", 25): the key is always there, so the default
\* is never taken and a null stays None
temp_of(current) == current.temperature_c

\* lines 207-230; temp is a number here
temperature_advisories(temp) ==
  IF temp > 400 THEN <<advisory("heat_stress", "high", None)>>
  ELSE IF temp > 350 THEN <<advisory("heat_advisory", "medium", None)>>
  ELSE IF temp < 100 THEN <<advisory("cold_advisory", "medium", None)>>
  ELSE <<>>

\* line 233: sum(f.get("precipitation_mm", 0) or 0 for f in forecast[:7])
RECURSIVE sum_precipitation(_, _)
sum_precipitation(forecast, n) ==
  IF n = 0 THEN 0
  ELSE sum_precipitation(forecast, n - 1)
         + (IF forecast[n].precipitation_mm = None THEN 0
            ELSE The(forecast[n].precipitation_mm))

total_rain_7days(forecast) == sum_precipitation(forecast, Min(7, Len(forecast)))

\* lines 235-258 written with if in the place of elif
rain_advisories_independent(total) ==
     (IF total > 1000
      THEN <<advisory("heavy_rain_warning", "high", Some(RoundHalfEven(total, 10)))>>
      ELSE <<>>)
  \o (IF total > 500
      THEN <<advisory("rain_expected", "low", Some(RoundHalfEven(total, 10)))>>
      ELSE <<>>)
  \o (IF total < 50 THEN <<advisory("dry_spell", "medium", None)>> ELSE <<>>)

\* lines 235-258; {total_rain_7days:.0f} rounds to a whole number of mm
rain_advisories(total) ==
  IF total > 1000
  THEN <<advisory("heavy_rain_warning", "high", Some(RoundHalfEven(total, 10)))>>
  ELSE IF total > 500
  THEN <<advisory("rain_expected", "low", Some(RoundHalfEven(total, 10)))>>
  ELSE IF total < 50 THEN <<advisory("dry_spell", "medium", None)>>
  ELSE <<>>

\* lines 261-268; humidity is a number here
humidity_advisories(humidity) ==
  IF humidity > 850 THEN <<advisory("disease_risk", "medium", None)>> ELSE <<>>

\* lines 271-286; wind is a number here
spray_advisories(wind) ==
  IF wind < 100 THEN <<advisory("spray_favorable", "info", None)>>
  ELSE IF wind > 200 THEN <<advisory("spray_unfavorable", "info", None)>>
  ELSE <<>>

\* lines 197-288 for the values the comparisons read. None > 40 raises
\* TypeError: the temperature, the humidity and the wind speed are compared as
\* they are, and only the precipitation is guarded with `or 0`
advisories_of(temp, forecast, humidity, wind) ==
  IF temp = None \/ humidity = None \/ wind = None
  THEN [raised |-> TRUE, value |-> <<>>]
  ELSE [raised |-> FALSE,
        value |->    temperature_advisories(The(temp))
                  \o rain_advisories(total_rain_7days(forecast))
                  \o humidity_advisories(The(humidity))
                  \o spray_advisories(The(wind))]

generate_agri_advisory(weather) ==
  advisories_of(temp_of(weather.current), weather.forecast,
                weather.current.humidity_percent, weather.current.wind_speed_kmh)

\* lines 135-164 once the forecast is built
info_and_advisory(weather_info, generated) ==
  IF generated.raised THEN [raised |-> TRUE, value |-> None]
  ELSE [raised |-> FALSE,
        value |-> Some([location |-> weather_info.location,
                        coordinates |-> weather_info.coordinates,
                        current |-> weather_info.current,
                        forecast |-> weather_info.forecast,
                        agricultural_advisory |-> generated.value])]

weather_info_of(weather_info) ==
  info_and_advisory(weather_info, generate_agri_advisory(weather_info))

\* what client.get and the reading of its response may end with: a payload
\* that parses, a status raise_for_status raises on, a body json() raises on
\* or that is no object, and an exception of the transport
WeatherOutcomes == {"ok", "status_error", "malformed", "exception"}

\* lines 127-164, the body of the try from the end of the await
with_forecast(location, coords, current, forecast) ==
  IF forecast.raised THEN [raised |-> TRUE, value |-> None]
  ELSE weather_info_of([location |-> location, coordinates |-> coords,
                        current |-> current, forecast |-> forecast.value])

get_weather_body(location, coords, outcome, data) ==
  IF outcome # "ok" THEN [raised |-> TRUE, value |-> None]
  ELSE with_forecast(location, coords, current_of(data.current), forecast_of(data.daily))

\* the body with no except around it
get_weather_uncaught(location, coords, outcome, data) ==
  get_weather_body(location, coords, outcome, data)

\* lines 166-168: except Exception logs the error and returns None
caught(body) ==
  [raised |-> FALSE, value |-> IF body.raised THEN None ELSE body.value]

get_weather_end(location, coords, outcome, data) ==
  caught(get_weather_body(location, coords, outcome, data))

\* lines 313-318: advisory.get(lang_key, advisory.get("message_en"))
formatted(one, language) ==
  [type |-> one.type, severity |-> one.severity,
   message |-> IF language = "hi" THEN one.message_hi
               ELSE IF language = "te" THEN one.message_te
               ELSE one.message_en]

\* get_weather_advisory for the value of WeatherService.get_weather
get_weather_advisory(weather, language) ==
  IF weather = None
  THEN [error |-> TRUE, message |-> "Could not fetch weather data for this location"]
  ELSE [error |-> FALSE, location |-> The(weather).location,
        current |-> The(weather).current,
        forecast_7day |-> The(weather).forecast,
        advisories |-> [i \in 1..Len(The(weather).agricultural_advisory) |->
                          formatted(The(weather).agricultural_advisory[i], language)],
        data_source |-> "Open-Meteo Weather API"]

\* ------------------------------------------------------------ the inputs
SessionIds == {1, 2}
\* rice on alluvial soil in the kharif season at Ludhiana, 30 per cent irrigated
RiceContext ==
  [crop_type |-> Some(<<114, 105, 99, 101>>),
   soil_type |-> Some(<<97, 108, 108, 117, 118, 105, 97, 108>>),
   season |-> Some(<<107, 104, 97, 114, 105, 102>>),
   location |-> Some(<<76, 117, 100, 104, 105, 97, 110, 97>>),
   rainfall_mm |-> None, irrigation_percent |-> Some(30),
   fertilizer_kg_ha |-> None, temperature_c |-> None]
ChatRequest(session_id, message, language, farm_context) ==
  [session_id |-> session_id, message |-> message, language |-> language,
   farm_context |-> farm_context]
\* the request bodies: "hi" and two Telugu letters, with no language, an empty
\* one and "hi", with and without a farm context, on two sessions
ChatRequests ==
  { ChatRequest(1, <<104, 105>>, None, Some(RiceContext)),
    ChatRequest(1, <<3112, 3134>>, Some("hi"), None),
    ChatRequest(2, <<3112, 3134>>, Some(""), None) }
SessionLanguages == {"en", "te"}

\* the payloads of the weather provider, in tenths: each figure a threshold
\* of the advisories, its neighbour or null; forecasts of no day, of one day
\* on either side of 5, 50 and 100 mm, of a null, of two days, of eight days
\* whose eighth is not counted, and one whose list is shorter than its days
NoData ==
  [current |-> [temperature_2m |-> None, relative_humidity_2m |-> None,
                wind_speed_10m |-> None],
   daily |-> None]
Temperatures == {None, Some(99), Some(100), Some(350), Some(351), Some(400), Some(401)}
Humidities == {None, Some(850), Some(851)}
WindSpeeds == {None, Some(99), Some(100), Some(200), Some(201)}
Days(precipitation_sum) ==
  Some([time |-> Len(precipitation_sum), precipitation_sum |-> precipitation_sum])
Dailies ==
  { None, Days(<<>>), Days(<<None>>), Days(<<Some(45)>>), Days(<<Some(50)>>),
    Days(<<Some(500)>>), Days(<<Some(505)>>), Days(<<Some(1000)>>),
    Days(<<Some(600), None, Some(405)>>),
    Days(<<Some(200), Some(200), Some(200), Some(200), Some(100), Some(50),
           Some(50), Some(500)>>),
    Some([time |-> 2, precipitation_sum |-> <<Some(10)>>]) }
Payloads ==
  { [current |-> [temperature_2m |-> temperature, relative_humidity_2m |-> humidity,
                  wind_speed_10m |-> wind],
     daily |-> daily] :
      temperature \in Temperatures, humidity \in Humidities, wind \in WindSpeeds,
      daily \in Dailies }

\* ------------------------------------------------------------------ Init
\* no weather request yet
NoWeatherCall ==
  [pc |-> "idle", location |-> <<>>, language |-> "", params |-> None, gets |-> 0,
   outcome |-> "", data |-> NoData, status |-> 0, result |-> None]

Init ==
  /\ EMERGENT_LLM_KEY \in ApiKeys
  /\ \/ /\ ML_MODEL_LOADED = TRUE
        /\ \E loaded \in Artifacts :
             /\ yield_model = Some(loaded.yield_model)
             /\ encoders = Some(loaded.encoders)
             /\ model_stats = Some(loaded.model_stats)
        /\ crop_data = Some(SampleCropData)
     \/ /\ ML_MODEL_LOADED = FALSE
        /\ yield_model = None
        /\ encoders = None
        /\ model_stats = None
        /\ crop_data = None
  /\ db_sessions = <<>>
  /\ db_messages = <<>>
  /\ chat_sessions = <<>>
  /\ requests = [r \in 1..Max(MaxRequests, MaxServiceRequests) |-> NoRequest]
  /\ created = <<>>
  /\ last_response = [op |-> "none", arg |-> <<>>, status |-> 0, body |-> <<>>]
  /\ now = 0
  /\ uuid_counter = 0
  /\ weather_call = NoWeatherCall

\* --------------------------------------------------------------- actions
\* lines 561-603 of the chat handler, run when send_message has returned
\* response_text: the prediction for the response and the two documents
chat_build(req, response_text) ==
  [req EXCEPT !.pc = "insert",
              !.response_text = response_text,
              !.ml_prediction = ml_prediction_of(req.farm_context),
              !.docs = <<user_msg_of(req), assistant_msg_of(req, response_text)>>]

\* lines 618-620: an exception that reaches the handler's except is answered
\* with HTTPException(status_code=500)
chat_failed(req, outcome) ==
  [req EXCEPT !.pc = "done", !.outcome = outcome, !.status = 500]

\* POST /api/chat arrives: the handler runs up to its first wait, which is the
\* provider's answer, or the database insert when no API key is configured;
\* chat_begin is the handler from get_or_create_chat on
chat_begin(r, request, detected_language, enriched_message) ==
     LET session_id == request.session_id
         message == request.message
         language == request.language
         farm_context == request.farm_context
         sessions == get_or_create_chat(chat_sessions, session_id)
         sent == send_message_begin(sessions[session_id], enriched_message)
         req == [NoRequest EXCEPT
                   !.session_id = session_id, !.message = message,
                   !.language = language, !.farm_context = farm_context,
                   !.detected_language = detected_language,
                   !.enriched = enriched_message,
                   !.overlap = \E q \in DOMAIN requests :
                                  /\ requests[q].pc = "post"
                                  /\ requests[q].session_id = session_id,
                   !.post = sent.post,
                   !.posts = Cardinality(sent.post)]
     IN /\ chat_sessions' = [sessions EXCEPT ![session_id].history = sent.history]
        /\ IF sent.returned
           THEN /\ requests' = [requests EXCEPT ![r] = chat_build(req, sent.value)]
                /\ now' = now + 2
                /\ uuid_counter' = uuid_counter + 2
           ELSE /\ requests' = [requests EXCEPT ![r] = [req EXCEPT !.pc = "post"]]
                /\ UNCHANGED <<now, uuid_counter>>

ChatArrive(r, request) ==
  /\ requests[r].pc = "idle"
  /\ r > 1 => requests[r - 1].pc # "idle"
  /\ chat_begin(r, request, detected_language_of(request.language, request.message),
                build_context_message(request.message, request.farm_context,
                                      detected_language_of(request.language,
                                                           request.message)))
  /\ UNCHANGED <<weather_call, EMERGENT_LLM_KEY, ML_MODEL_LOADED, yield_model, encoders, model_stats,
                 crop_data, db_sessions, db_messages,
                 created, last_response>>

\* the provider answers the POST of request r: send_message returns and the
\* handler runs on to the database insert
LlmAnswer(r, outcome) ==
  /\ requests[r].pc = "post"
  /\ LET req == requests[r]
         chat == chat_sessions[req.session_id]
         sent == send_message_end(chat, The(req.post), outcome)
     IN /\ chat_sessions' = [chat_sessions EXCEPT ![req.session_id].history = sent.history]
        /\ IF sent.raised
           THEN /\ requests' = [requests EXCEPT ![r] = chat_failed(req, outcome)]
                /\ UNCHANGED <<now, uuid_counter>>
           ELSE /\ requests' = [requests EXCEPT ![r] =
                     chat_build([req EXCEPT !.outcome = outcome,
                                            !.posts = req.posts + sent.posts],
                                sent.value)]
                /\ now' = now + 2
                /\ uuid_counter' = uuid_counter + 2
  /\ UNCHANGED <<weather_call, EMERGENT_LLM_KEY, ML_MODEL_LOADED, yield_model, encoders, model_stats,
                 crop_data, db_sessions, db_messages,
                 created, last_response>>

\* a handler that fails the request when the insert raised
chat_end_strict(req, ok) ==
  IF ok
  THEN [req EXCEPT !.pc = "done", !.saved = TRUE, !.status = 200,
                   !.result = Some(ChatResponse(req))]
  ELSE [req EXCEPT !.pc = "done", !.saved = FALSE, !.status = 500]

\* lines 605-616: the except of the insert logs a warning, and the handler
\* returns the ChatResponse either way
chat_end(req, ok) ==
  [req EXCEPT !.pc = "done", !.saved = ok, !.status = 200,
              !.result = Some(ChatResponse(req))]

\* db.messages.insert_many succeeds or raises (the handler logs it and goes on);
\* then the handler returns the ChatResponse
InsertMessages(r, ok) ==
  /\ requests[r].pc = "insert"
  /\ db_messages' = IF ok THEN insert_many(db_messages, requests[r].docs) ELSE db_messages
  /\ requests' = [requests EXCEPT ![r] = chat_end(requests[r], ok)]
  /\ UNCHANGED <<weather_call, EMERGENT_LLM_KEY, ML_MODEL_LOADED, yield_model, encoders, model_stats,
                 crop_data, db_sessions, chat_sessions,
                 created, last_response, now, uuid_counter>>

\* a Session of the default language, whatever was asked for
Session_default(language) ==
  [id |-> uuid_counter + 1, language |-> "en", farm_context |-> None,
   created_at |-> now + 1, updated_at |-> now + 2]

\* Session(language=language): the next uuid4() and the next two readings of the clock
Session(language) ==
  [id |-> uuid_counter + 1, language |-> language, farm_context |-> None,
   created_at |-> now + 1, updated_at |-> now + 2]

\* POST /api/session: the Session is returned whether or not insert_one raised
CreateSession(language, ok) ==
  /\ LET session == Session(language) IN
       /\ db_sessions' = IF ok THEN insert_one(db_sessions, session) ELSE db_sessions
       /\ created' = Append(created, [language |-> language, session |-> session])
       /\ last_response' = [op |-> "create_session", arg |-> language, status |-> 200,
                            body |-> session]
  /\ uuid_counter' = uuid_counter + 1
  /\ now' = now + 2
  /\ UNCHANGED <<weather_call, EMERGENT_LLM_KEY, ML_MODEL_LOADED, yield_model, encoders, model_stats,
                 crop_data, db_messages, chat_sessions,
                 requests>>

\* find({"session_id": session_id})
find_messages(collection, session_id) ==
  SelectSeq(collection, LAMBDA doc : doc.session_id = session_id)

\* a cursor that is not sorted
insertion_order(docs) == docs

\* sort("timestamp", 1): ascending; documents of equal timestamp keep their order
RECURSIVE sort_timestamp(_)
sort_timestamp(docs) ==
  IF docs = <<>> THEN <<>>
  ELSE LET front == sort_timestamp(SubSeq(docs, 1, Len(docs) - 1))
           doc == docs[Len(docs)]
           k == Cardinality({i \in 1..Len(front) : front[i].timestamp <= doc.timestamp})
       IN SubSeq(front, 1, k) \o <<doc>> \o SubSeq(front, k + 1, Len(front))

\* to_list(100)
to_list(docs, length) == SubSeq(docs, 1, Min(length, Len(docs)))

\* the list get_messages returns
get_messages(session_id) ==
  to_list(sort_timestamp(find_messages(db_messages, session_id)), 100)

\* GET /api/messages/{session_id}
GetMessages(session_id) ==
  /\ last_response' = [op |-> "get_messages", arg |-> session_id, status |-> 200,
                       body |-> get_messages(session_id)]
  /\ UNCHANGED <<weather_call, EMERGENT_LLM_KEY, ML_MODEL_LOADED, yield_model, encoders, model_stats,
                 crop_data, db_sessions, db_messages,
                 chat_sessions, requests, created, now, uuid_counter>>

\* find_one({"id": session_id})
find_one(collection, id) ==
  LET hits == {i \in 1..Len(collection) : collection[i].id = id} IN
  IF hits = {} THEN None ELSE Some(collection[CHOOSE i \in hits : \A j \in hits : i <= j])

\* GET /api/session/{session_id}
GetSession(session_id) ==
  /\ last_response' =
       IF find_one(db_sessions, session_id) = None
       THEN [op |-> "get_session", arg |-> session_id, status |-> 404, body |-> <<>>]
       ELSE [op |-> "get_session", arg |-> session_id, status |-> 200,
             body |-> The(find_one(db_sessions, session_id))]
  /\ UNCHANGED <<weather_call, EMERGENT_LLM_KEY, ML_MODEL_LOADED, yield_model, encoders, model_stats,
                 crop_data, db_sessions, db_messages,
                 chat_sessions, requests, created, now, uuid_counter>>

\* POST /api/predict; an exception of predict_yield_ml is answered with status 500
predict_response(farm_input, prediction) ==
  IF prediction.raised
  THEN [op |-> "predict", arg |-> farm_input, status |-> 500, body |-> <<>>]
  ELSE [op |-> "predict", arg |-> farm_input, status |-> 200,
        body |-> The(prediction.value)]

Predict(farm_input) ==
  /\ last_response' = predict_response(farm_input, predict_yield_ml(farm_input))
  /\ UNCHANGED <<weather_call, EMERGENT_LLM_KEY, ML_MODEL_LOADED, yield_model, encoders, model_stats,
                 crop_data, db_sessions, db_messages,
                 chat_sessions, requests, created, now, uuid_counter>>

\* POST /api/detect-language
detect_lang(text) ==
  /\ last_response' = [op |-> "detect_language", arg |-> text, status |-> 200,
                        body |-> [language |-> detect_language(text), text |-> text]]
  /\ UNCHANGED <<weather_call, EMERGENT_LLM_KEY, ML_MODEL_LOADED, yield_model, encoders, model_stats,
                 crop_data, db_sessions, db_messages,
                 chat_sessions, requests, created, now, uuid_counter>>

\* ------------------------------------------------------- weather actions
\* GET /api/weather/{location} up to the await of client.get: without
\* coordinates get_weather returns None and the request is answered; with them
\* one GET is issued with the coordinates as its parameters
WeatherArrive(location, language) ==
  /\ weather_call.pc = "idle"
  /\ LET coords == get_coordinates(location) IN
     weather_call' =
       IF coords = None
       THEN [weather_call EXCEPT
               !.pc = "done", !.location = location, !.language = language,
               !.status = 200,
               !.result = Some(get_weather_advisory(None, language))]
       ELSE [weather_call EXCEPT
               !.pc = "get", !.location = location, !.language = language,
               !.params = Some([latitude |-> The(coords).lat,
                                longitude |-> The(coords).lon]),
               !.gets = @ + 1]
  /\ UNCHANGED <<EMERGENT_LLM_KEY, ML_MODEL_LOADED, yield_model, encoders, model_stats,
                 crop_data, db_sessions, db_messages, chat_sessions, requests, created,
                 last_response, now, uuid_counter>>

\* the request is answered with what get_weather_advisory makes of the value
\* of get_weather, or fails with the exception that left get_weather
answered(call, outcome, data, weather) ==
  [call EXCEPT
     !.pc = "done", !.outcome = outcome, !.data = data,
     !.status = IF weather.raised THEN 500 ELSE 200,
     !.result = IF weather.raised THEN None
                ELSE Some(get_weather_advisory(weather.value, call.language))]

\* the GET has ended with an outcome and, where the body parsed, its payload
WeatherAnswer(outcome, data) ==
  /\ weather_call.pc = "get"
  /\ weather_call' =
       answered(weather_call, outcome, data,
                get_weather_end(weather_call.location, The(weather_call.params),
                                outcome, data))
  /\ UNCHANGED <<EMERGENT_LLM_KEY, ML_MODEL_LOADED, yield_model, encoders, model_stats,
                 crop_data, db_sessions, db_messages, chat_sessions, requests, created,
                 last_response, now, uuid_counter>>

\* the FarmInput of the service specification's predict requests
ServiceFarmInputs ==
  { FarmInputOf(RiceContext, FALSE),
    [FarmInputOf(RiceContext, FALSE) EXCEPT !.location = <<97, 40, 98>>] }  \* "a(b"

\* the request body of the service specification's chat requests
ServiceChatRequests == { ChatRequest(1, <<104, 105>>, None, Some(RiceContext)) }

\* the whole service: every handler
Next ==
  \/ \E r \in 1..MaxServiceRequests, request \in ServiceChatRequests :
       ChatArrive(r, request)
  \/ \E r \in 1..MaxServiceRequests, outcome \in Outcomes : LlmAnswer(r, outcome)
  \/ \E r \in 1..MaxServiceRequests, ok \in BOOLEAN : InsertMessages(r, ok)
  \/ \E language \in SessionLanguages, ok \in BOOLEAN :
       Len(created) < MaxServiceSessions /\ CreateSession(language, ok)
  \/ \E session_id \in SessionIds : GetSession(session_id)
  \/ \E session_id \in SessionIds : GetMessages(session_id)
  \/ \E farm_input \in ServiceFarmInputs : Predict(farm_input)

Spec == Init /\ [][Next]_vars

\* the chat handlers, where no model was
\* loaded and the key, if there is one, is not an OpenRouter key
InitChat == Init /\ ~ML_MODEL_LOADED /\ ~IsOpenRouterKey(EMERGENT_LLM_KEY)

NextChat ==
  \/ \E r \in 1..MaxRequests, request \in ChatRequests : ChatArrive(r, request)
  \/ \E r \in 1..MaxRequests, outcome \in Outcomes : LlmAnswer(r, outcome)
  \/ \E r \in 1..MaxRequests, ok \in BOOLEAN : InsertMessages(r, ok)

SpecChat == InitChat /\ [][NextChat]_vars

\* the chat handlers and the reading of what they stored
NextMessages ==
  \/ NextChat
  \/ \E session_id \in SessionIds : GetMessages(session_id)

SpecMessages == InitChat /\ [][NextMessages]_vars

\* the inputs of the prediction: the thresholds of the risk score and of the
\* Rainfall factor and their neighbours, a negative irrigation figure (the fields carry no validation), a
\* crop the table has and one it has not, a district, a state and a place that
\* is no regular expression
FarmInputs ==
  { [crop_type |-> crop_type, soil_type |-> <<97, 108, 108, 117, 118, 105, 97, 108>>,
     season |-> <<107, 104, 97, 114, 105, 102>>, location |-> location,
     rainfall_mm |-> rainfall_mm, irrigation_percent |-> irrigation_percent,
     fertilizer_kg_ha |-> fertilizer_kg_ha, temperature_c |-> None,
     area_hectares |-> None] :
      crop_type \in { <<82, 105, 99, 101>>, <<84, 101, 102, 102>> },  \* "Rice", "Teff"
      location \in { <<76, 117, 100, 104, 105, 97, 110, 97>>,       \* "Ludhiana"
                     <<66, 105, 104, 97, 114>>,                      \* "Bihar"
                     <<97, 40, 98>> },                               \* "a(b"
      rainfall_mm \in { None, Some(0), Some(499), Some(500), Some(600), Some(601),
                        Some(1199), Some(1200), Some(1500), Some(1501) },
      irrigation_percent \in { None, Some(-400), Some(0), Some(39), Some(40) },
      fertilizer_kg_ha \in { None, Some(79), Some(80) } }

\* the prediction endpoint alone, one request in a behaviour: the prediction
\* reads the input and what was loaded at start, not the API key and nothing
\* that a request changes
InitPredict == Init /\ EMERGENT_LLM_KEY = ""

NextPredict ==
  \E farm_input \in FarmInputs : last_response.op = "none" /\ Predict(farm_input)

SpecPredict == InitPredict /\ [][NextPredict]_vars

\* inputs that differ in the season, the temperature and the area, and in
\* fields the prediction does read
SeasonFarmInputs ==
  { [crop_type |-> crop_type, soil_type |-> <<97, 108, 108, 117, 118, 105, 97, 108>>,
     season |-> season, location |-> <<76, 117, 100, 104, 105, 97, 110, 97>>,
     rainfall_mm |-> rainfall_mm, irrigation_percent |-> irrigation_percent,
     fertilizer_kg_ha |-> None, temperature_c |-> temperature_c,
     area_hectares |-> area_hectares] :
      crop_type \in { <<82, 105, 99, 101>>, <<84, 101, 102, 102>> },  \* "Rice", "Teff"
      season \in { <<107, 104, 97, 114, 105, 102>>, <<82, 97, 98, 105>>, <<>> },  \* "kharif", "Rabi", ""
      rainfall_mm \in { None, Some(499) },
      irrigation_percent \in { None, Some(39) },
      temperature_c \in { None, Some(0), Some(45) },
      area_hectares \in { None, Some(2) } }

\* predictions one after the other, with and without a loaded model
NextSeason == \E farm_input \in SeasonFarmInputs : Predict(farm_input)

SpecSeason == InitPredict /\ [][NextSeason]_vars

\* the session handlers
NextSession ==
  \/ \E language \in SessionLanguages, ok \in BOOLEAN :
       Len(created) < MaxSessions /\ CreateSession(language, ok)
  \/ \E session_id \in SessionIds : GetSession(session_id)

SpecSession == Init /\ [][NextSession]_vars

\* the texts of the language detection: every text of up to MaxTextLen
\* characters of a Telugu letter, a Devanagari letter and the letters of "kya",
\* the three texts of the repository's test, and texts on both sides of the
\* 15 per cent of each script
Rep(c, n) == [i \in 1..n |-> c]

ShortTexts == UNION { [1..n -> {3112, 2350, 107, 121, 97}] : n \in 0..MaxTextLen }

LongTexts ==
  { <<72, 101, 108, 108, 111, 44, 32, 104, 111, 119, 32, 97, 114, 101, 32, 121, 111,
      117, 63>>,                                         \* "Hello, how are you?"
    <<2350, 2375, 2352, 2368, 32, 2347, 2360, 2354, 32, 2350, 2375, 2306, 32, 2346,
      2368, 2354, 2375, 32, 2346, 2340, 2381, 2340, 2375, 32, 2361, 2376, 2306>>,
    <<3112, 3134, 32, 3114, 3074, 3103, 32, 3078, 3093, 3137, 3122, 3137, 32, 3114,
      3128, 3137, 3114, 3137>>,
    Rep(3112, 1) \o Rep(120, 5),                         \* 1 of 6 Telugu
    Rep(3112, 1) \o Rep(120, 6),                         \* 1 of 7 Telugu
    Rep(3112, 3) \o Rep(120, 17),                        \* 3 of 20 Telugu
    Rep(2350, 1) \o Rep(120, 5),                         \* 1 of 6 Devanagari
    Rep(2350, 1) \o Rep(120, 6),                         \* 1 of 7 Devanagari
    Rep(2350, 3) \o Rep(120, 17),                        \* 3 of 20 Devanagari
    Rep(3112, 3) \o Rep(2350, 4) \o Rep(120, 13),        \* 3 and 4 of 20
    Rep(3112, 4) \o Rep(2350, 10) \o Rep(120, 6),        \* 4 and 10 of 20
    Rep(3112, 3) \o <<75, 72, 69, 84, 73>> \o Rep(32, 12),            \* "KHETI"
    Rep(2350, 3) \o <<66, 97, 97, 114, 105, 115, 104>> \o Rep(32, 10), \* "Baarish"
    <<84, 104, 101, 32, 99, 104, 97, 105, 114>>,         \* "The chair"
    <<75, 104, 101, 116>>,                               \* "Khet"
    <<32>> }

DetectTexts == ShortTexts \cup LongTexts

\* the language detection alone, one request in a behaviour
InitDetect == Init /\ EMERGENT_LLM_KEY = "" /\ ~ML_MODEL_LOADED

NextDetect ==
  \E text \in DetectTexts : last_response.op = "none" /\ detect_lang(text)

SpecDetect == InitDetect /\ [][NextDetect]_vars

\* the locations of the weather requests: districts and states in either
\* order and in several cases, two districts, a name within a longer word,
\* surrounding blanks, and places the tables have not
WeatherDistricts == { <<76, 117, 100, 104, 105, 97, 110, 97>>, <<65, 71, 82, 65>>, <<107, 114, 105, 115, 104, 110, 97>>, <<71, 117, 110, 116, 117, 114>> }

WeatherStates == { <<80, 117, 110, 106, 97, 98>>, <<85, 116, 116, 97, 114, 32, 80, 114, 97, 100, 101, 115, 104>>, <<98, 105, 104, 97, 114>> }

WeatherLocations ==
     WeatherDistricts \cup WeatherStates
\cup { district \o <<44, 32>> \o state : district \in WeatherDistricts, state \in WeatherStates }
\cup { state \o <<32>> \o district : district \in WeatherDistricts, state \in WeatherStates }
\cup { <<107, 114, 105, 115, 104, 110, 97, 32, 103, 117, 110, 116, 117, 114>>,   \* "krishna guntur"
       <<32, 32, 80, 117, 110, 101, 32, 32>>,   \* "  Pune  "
       <<78, 105, 97, 103, 114, 97>>,   \* "Niagra"
       <<72, 121, 100, 101, 114, 97, 98, 97, 100>>,   \* "Hyderabad"
       <<65, 116, 108, 97, 110, 116, 105, 115>>,   \* "Atlantis"
       <<>> }

WeatherLanguages == {"en", "te"}

\* the weather endpoint alone, one request in a behaviour
InitWeather == Init /\ EMERGENT_LLM_KEY = "" /\ ~ML_MODEL_LOADED

NextWeather ==
  \/ \E location \in WeatherLocations, language \in WeatherLanguages :
       WeatherArrive(location, language)
  \/ \E outcome \in WeatherOutcomes :
       \E data \in (IF outcome = "ok" THEN Payloads ELSE {NoData}) :
         WeatherAnswer(outcome, data)

SpecWeather == InitWeather /\ [][NextWeather]_vars

\* ------------------------------------------------------------ properties

\* C1: every chat request that supplies a non-empty language is answered in
\* that language, and one that supplies no language is answered in
\* detect_language(message).
C1_ResponseLanguage ==
  \A r \in DOMAIN requests :
    requests[r].pc = "done" =>
      LET req == requests[r]
          response == The(req.result)
      IN /\ (req.language # None /\ req.language # Some(""))
              => response.language = The(req.language)
         /\ req.language = None => response.language = detect_language(req.message)

\* a request with a language that differs from the detected one, and a request
\* with none, have both been answered
C1_Witness ==
  /\ \E r \in DOMAIN requests :
       /\ requests[r].pc = "done"
       /\ requests[r].language = Some("hi")
       /\ detect_language(requests[r].message) = "te"
       /\ The(requests[r].result).language = "hi"
  /\ \E r \in DOMAIN requests :
       /\ requests[r].pc = "done"
       /\ requests[r].language = None
       /\ The(requests[r].result).language = "en"

C3_AppendOnlyLog ==
  [][ \/ db_messages' = db_messages
      \/ \E r \in DOMAIN requests :
           /\ requests[r].pc = "insert"
           /\ Len(db_messages') = Len(db_messages) + 2
           /\ SubSeq(db_messages', 1, Len(db_messages)) = db_messages
           /\ LET user_msg == db_messages'[Len(db_messages) + 1]
                  assistant_msg == db_messages'[Len(db_messages) + 2]
              IN /\ user_msg.role = "user"
                 /\ user_msg.content = Raw(requests[r].message)
                 /\ user_msg.session_id = requests[r].session_id
                 /\ assistant_msg.role = "assistant"
                 /\ assistant_msg.content = requests[r].response_text
                 /\ assistant_msg.session_id = requests[r].session_id
    ]_vars

\* two chat requests have been stored, one of them with a farm context, whose
\* text was enriched before it was sent
C3_Witness ==
  /\ Len(db_messages) = 4
  /\ \E r \in DOMAIN requests :
       /\ requests[r].saved
       /\ requests[r].enriched.ctx # <<>>
       /\ \E i \in 1..Len(db_messages) :
            /\ db_messages[i].role = "user"
            /\ db_messages[i].content = Raw(requests[r].message)

\* C4: every stored session is, field by field, a Session that create_session
\* returned, and no id is stored twice, whatever chat, predict, get_session
\* and get_messages have done since.
C4_SessionsAsCreated ==
  /\ \A i \in 1..Len(db_sessions) :
       \E j \in 1..Len(created) : created[j].session = db_sessions[i]
  /\ \A i, j \in 1..Len(db_sessions) :
       db_sessions[i].id = db_sessions[j].id => i = j

\* a session was stored, a chat request has run to its end and stored its
\* messages, and get_session has then read the session
C4_Witness ==
  /\ Len(db_sessions) = 1
  /\ \E r \in DOMAIN requests : requests[r].pc = "done" /\ requests[r].saved
  /\ db_messages # <<>>
  /\ db_sessions[1].created_at < db_messages[1].timestamp
  /\ last_response.op = "get_session"
  /\ last_response.status = 200
  /\ last_response.body = created[1].session

\* C5: every Session that create_session returned has the language that was
\* asked for, and an id that no Session returned before it has.
C5_SessionLanguageAndId ==
  \A i \in 1..Len(created) :
    /\ created[i].session.language = created[i].language
    /\ \A j \in 1..(i - 1) : created[j].session.id # created[i].session.id

\* two sessions of different languages have been created
C5_Witness ==
  /\ Len(created) = 2
  /\ created[1].language # created[2].language
  /\ created[2].session.language = "te"

\* C6 as stated: once no send_message call on a session is waiting for the
\* provider, every assistant entry of the session's history comes right after
\* the user entry it answers, as in a serial execution.
C6_SerialHistory ==
  \A s \in DOMAIN chat_sessions :
    (\A r \in DOMAIN requests :
       requests[r].session_id = s => requests[r].pc # "post")
    => LET history == chat_sessions[s].history IN
       \A i \in 2..Len(history) :
         history[i].role = "assistant" =>
           /\ history[i - 1].role = "user"
           /\ history[i].content \in {MockResponse, Completion(<<history[i - 1]>>)}

\* C7: with a real API key, every send_message call has appended its user
\* message, has issued a POST whose last message is that user message, and
\* has issued one POST only, also after a status other than 200 or an exception.
C7_OnePost ==
  EMERGENT_LLM_KEY \notin {"", "your_key_here"} =>
    \A r \in DOMAIN requests :
      requests[r].pc # "idle" =>
        LET req == requests[r]
            user_entry == [role |-> "user", content |-> req.enriched]
            history == chat_sessions[req.session_id].history
        IN /\ \E i \in 1..Len(history) : history[i] = user_entry
           /\ req.post # None
           /\ The(req.post).messages[Len(The(req.post).messages)] = user_entry
           /\ req.posts = 1

\* one call has ended on a status other than 200 and another on an exception
C7_Witness ==
  /\ EMERGENT_LLM_KEY \notin {"", "your_key_here"}
  /\ \E r \in DOMAIN requests :
       requests[r].pc = "done" /\ requests[r].outcome = "non200" /\ requests[r].posts = 1
  /\ \E r \in DOMAIN requests :
       requests[r].pc = "done" /\ requests[r].outcome = "exception" /\ requests[r].posts = 1

\* C8: with an empty API key or "your_key_here", no send_message call issues a
\* POST, every call returns the mock response, and every history is the
\* system message followed by pairs of a user entry and the mock response as
\* the assistant's entry.
C8_MockWithoutKey ==
  EMERGENT_LLM_KEY \in {"", "your_key_here"} =>
    /\ \A r \in DOMAIN requests :
         requests[r].pc # "idle" =>
           /\ requests[r].post = None
           /\ requests[r].posts = 0
           /\ requests[r].response_text = MockResponse
    /\ \A s \in DOMAIN chat_sessions :
         LET history == chat_sessions[s].history IN
         /\ Len(history) =
              1 + 2 * Cardinality({r \in DOMAIN requests :
                                     requests[r].pc # "idle" /\ requests[r].session_id = s})
         /\ \A i \in 2..Len(history) :
              IF i % 2 = 0
              THEN history[i].role = "user"
              ELSE history[i] = [role |-> "assistant", content |-> MockResponse]

\* with the key "your_key_here", two calls on one chat have returned the mock
C8_Witness ==
  /\ EMERGENT_LLM_KEY = "your_key_here"
  /\ \E s \in DOMAIN chat_sessions : Len(chat_sessions[s].history) = 5
  /\ \A r \in DOMAIN requests :
       requests[r].pc = "done" /\ The(requests[r].result).response = MockResponse

\* C9: a step leaves every chat in place with its history extended at the end
\* only, the first entry of every history is the system message the chat was
\* built with, and in a history whose calls did not overlap every assistant
\* entry comes right after a user entry.
C9_HistoryAppendOnly ==
  [][ /\ \A s \in DOMAIN chat_sessions :
           /\ s \in DOMAIN chat_sessions'
           /\ Len(chat_sessions'[s].history) >= Len(chat_sessions[s].history)
           /\ SubSeq(chat_sessions'[s].history, 1, Len(chat_sessions[s].history))
                = chat_sessions[s].history
      /\ \A s \in DOMAIN chat_sessions' :
           LET history == chat_sessions'[s].history IN
           /\ Len(history) >= 1
           /\ history[1] = [role |-> "system", content |-> chat_sessions'[s].system_message]
           /\ (\A r \in DOMAIN requests' :
                 requests'[r].session_id = s => ~requests'[r].overlap)
              => \A i \in 1..Len(history) :
                   history[i].role = "assistant" =>
                     i > 1 /\ history[i - 1].role = "user"
    ]_vars

\* two calls on one chat, one after the other: the first failed, the second
\* was answered
C9_Witness ==
  \E s \in DOMAIN chat_sessions :
    /\ \A r \in DOMAIN requests :
         /\ requests[r].session_id = s
         /\ requests[r].pc = "done"
         /\ ~requests[r].overlap
    /\ \E r \in DOMAIN requests : requests[r].outcome = "non200"
    /\ Len(chat_sessions[s].history) = 4
    /\ chat_sessions[s].history[4].role = "assistant"

\* C10: every prediction that predict_yield_ml returns has the risk_level
\* "Low", "Medium" or "High".
C10_RiskLevels ==
  (last_response.op = "predict" /\ last_response.status = 200)
    => last_response.body.risk_level \in {"Low", "Medium", "High"}

\* a prediction for a farm with every risk factor: 39 per cent irrigation,
\* 499 mm of rain, 79 kg/ha of fertilizer
C10_Witness ==
  /\ last_response.op = "predict"
  /\ last_response.status = 200
  /\ last_response.arg.irrigation_percent = Some(39)
  /\ last_response.arg.rainfall_mm = Some(499)
  /\ last_response.arg.fertilizer_kg_ha = Some(79)
  /\ last_response.body.risk_level = "High"
\* C11: the risk level of every prediction follows the thresholds on the
\* values used after defaulting: 2 for irrigation below 40, plus 2 for rainfall
\* below 500 or 1 for rainfall above 1500, plus 1 for fertilizer below 80;
\* "High" exactly for a score of 3 or more, "Medium" exactly for 1 or 2, "Low"
\* exactly for 0.
C11_RiskThresholds ==
  (last_response.op = "predict" /\ last_response.status = 200) =>
    LET farm_input == last_response.arg
        irrigation == irrigation_of(farm_input)
        rainfall == rainfall_of(farm_input)
        fertilizer == fertilizer_of(farm_input)
        score == (IF irrigation < 40 THEN 2 ELSE 0)
                 + (IF rainfall < 500 THEN 2 ELSE IF rainfall > 1500 THEN 1 ELSE 0)
                 + (IF fertilizer < 80 THEN 1 ELSE 0)
        level == last_response.body.risk_level
    IN /\ level = "High" <=> score >= 3
       /\ level = "Medium" <=> score \in {1, 2}
       /\ level = "Low" <=> score = 0

\* a prediction on the thresholds themselves: 40 per cent irrigation, 500 mm of
\* rain and 80 kg/ha of fertilizer score 0
C11_Witness ==
  /\ last_response.op = "predict"
  /\ last_response.status = 200
  /\ last_response.arg.irrigation_percent = Some(40)
  /\ last_response.arg.rainfall_mm = Some(500)
  /\ last_response.arg.fertilizer_kg_ha = Some(80)
  /\ last_response.body.risk_level = "Low"
\* C12 as stated: the confidence of every prediction lies between 0 and 1
\* (0 and 100 hundredths), whatever test score the loaded statistics hold.
C12_ConfidenceInUnitInterval ==
  (last_response.op = "predict" /\ last_response.status = 200) =>
    /\ 0 <= last_response.body.confidence_score
    /\ last_response.body.confidence_score <= 100

C14_ListsBounded ==
  (last_response.op = "predict" /\ last_response.status = 200) =>
    /\ Len(last_response.body.influential_factors) \in 1..5
    /\ Len(last_response.body.recommendations) \in 1..5

\* six recommendations were generated (fertilizer, two tips, drip irrigation,
\* crop insurance, Soil Health Card) and five of them returned
C14_Witness ==
  /\ last_response.op = "predict"
  /\ last_response.status = 200
  /\ last_response.body.risk_level = "High"
  /\ Len(recommendations(last_response.arg, "High")) = 6
  /\ Len(last_response.body.recommendations) = 5
  /\ Len(last_response.body.influential_factors) = 4
\* C15 as stated: the response of every successful POST /api/predict has the
\* fields predicted_yield, confidence, risk_level, influential_factors and
\* recommendations.
C15_RequiredFields ==
  (last_response.op = "predict" /\ last_response.status = 200) =>
    {"predicted_yield", "confidence", "risk_level", "influential_factors",
     "recommendations"} \subseteq DOMAIN last_response.body
\* C16 as stated: with the model loaded, a prediction for a known crop whose
\* crop, soil type or season is not among the classes of its encoder returns
\* the fallback interpolation (the average yield of the crop scaled by the
\* irrigation, rainfall and fertilizer factors, held within min..max).
C16_FallbackWhenUnresolved ==
  (last_response.op = "predict" /\ last_response.status = 200 /\ ML_MODEL_LOADED) =>
    LET farm_input == last_response.arg
        enc == The(encoders)
        crop_info == get_crop_info(farm_input.crop_type)
        unresolved ==
          \/ ~in_classes(enc.Crop, strip(lower(farm_input.crop_type)))
          \/ ~in_lower_classes(enc.Soil_Type, strip(lower(farm_input.soil_type)))
          \/ ~in_lower_classes(enc.Season, strip(lower(farm_input.season)))
    IN (unresolved /\ crop_info # None) =>
         last_response.body.predicted_yield_kg_ha =
           Max(The(crop_info).min * 100,
               Min(The(crop_info).max * 100,
                   interpolated_yield(The(crop_info).avg, irrigation_of(farm_input),
                                      rainfall_of(farm_input), fertilizer_of(farm_input))))

\* C16: with the model loaded, the fallback interpolation is what a prediction
\* for a known crop returns when the model path raises, which it does when a
\* key is among the classes it is compared with and its title-cased form is
\* not a class; with no exception the output of the model is returned, also
\* for a crop, soil type or season that is not among the classes.
C16_FallbackOnException ==
  (last_response.op = "predict" /\ last_response.status = 200 /\ ML_MODEL_LOADED) =>
    LET farm_input == last_response.arg
        enc == The(encoders)
        crop_info == get_crop_info(farm_input.crop_type)
        crop_key == strip(lower(farm_input.crop_type))
        soil_key == strip(lower(farm_input.soil_type))
        season_key == strip(lower(farm_input.season))
        raises ==
          \/ in_classes(enc.Crop, crop_key) /\ ~in_classes(enc.Crop, title(crop_key))
          \/ in_lower_classes(enc.Soil_Type, soil_key)
               /\ ~in_classes(enc.Soil_Type, title(soil_key))
          \/ in_lower_classes(enc.Season, season_key)
               /\ ~in_classes(enc.Season, title(season_key))
        body == last_response.body
    IN /\ (raises /\ crop_info # None) =>
            /\ body.predicted_yield_kg_ha =
                 Max(The(crop_info).min * 100,
                     Min(The(crop_info).max * 100,
                         interpolated_yield(The(crop_info).avg, irrigation_of(farm_input),
                                            rainfall_of(farm_input),
                                            fertilizer_of(farm_input))))
            /\ body.confidence_score = 75
       /\ ~raises =>
            body.predicted_yield_kg_ha =
              RoundHalfEven(model_predict(The(yield_model), features(farm_input)), 10)

\* the crop key "rice" is a class, "Rice" is none: the transform raised and
\* the interpolation 4000 * 0.97 * 0.85 * 0.98 = 3232.04 was returned, which is
\* not what the model gives for the input
C16_Witness ==
  /\ last_response.op = "predict"
  /\ last_response.status = 200
  /\ ML_MODEL_LOADED
  /\ The(encoders) = LowerCropEncoders
  /\ last_response.arg.irrigation_percent = Some(40)
  /\ last_response.arg.rainfall_mm = Some(500)
  /\ last_response.arg.fertilizer_kg_ha = Some(80)
  /\ last_response.body.predicted_yield_kg_ha = 323204
  /\ last_response.body.predicted_yield_kg_ha #
       RoundHalfEven(model_predict(The(yield_model), features(last_response.arg)), 10)
\* C17: a service whose artifacts failed to load has ML_MODEL_LOADED false and
\* no model, and every prediction it returns has the average yield of the crop
\* in the knowledge table, or 3000 for a crop the table has not, and confidence
\* 0.75, whatever rainfall, irrigation and fertilizer are given.
C17_DefaultWhenNotLoaded ==
  ~ML_MODEL_LOADED =>
    /\ yield_model = None /\ encoders = None /\ model_stats = None
    /\ (last_response.op = "predict" /\ last_response.status = 200) =>
         LET crop_info == get_crop_info(last_response.arg.crop_type) IN
         /\ last_response.body.predicted_yield_kg_ha =
              (IF crop_info # None THEN The(crop_info).avg ELSE 3000) * 100
         /\ last_response.body.confidence_score = 75

\* without a model, rice with 40 per cent irrigation, 500 mm of rain and 80
\* kg/ha of fertilizer was predicted at the average of 4000 kg/ha
C17_Witness ==
  /\ ~ML_MODEL_LOADED
  /\ last_response.op = "predict"
  /\ last_response.status = 200
  /\ get_crop_info(last_response.arg.crop_type) # None
  /\ last_response.arg.irrigation_percent = Some(40)
  /\ last_response.arg.rainfall_mm = Some(500)
  /\ last_response.arg.fertilizer_kg_ha = Some(80)
  /\ last_response.body.predicted_yield_kg_ha = 400000
  /\ last_response.body.confidence_score = 75
\* C18: a prediction for the FarmInput of the prediction before it is the
\* same response, whatever chat requests and sessions came in between, and a
\* prediction leaves the stored sessions, the stored messages, the chat
\* sessions and what was loaded at start as they were.
C18_PurePrediction ==
  [][ last_response'.op = "predict" =>
        /\ (last_response.op = "predict" /\ last_response.arg = last_response'.arg)
             => /\ last_response'.status = last_response.status
                /\ last_response'.body = last_response.body
        /\ ( \/ last_response.op # "predict"
             \/ last_response.arg # last_response'.arg
             \/ last_response.status # last_response'.status
             \/ last_response.body # last_response'.body ) =>
             /\ db_sessions' = db_sessions
             /\ db_messages' = db_messages
             /\ chat_sessions' = chat_sessions
             /\ requests' = requests
             /\ <<ML_MODEL_LOADED, yield_model, encoders, model_stats, crop_data>>' =
                  <<ML_MODEL_LOADED, yield_model, encoders, model_stats, crop_data>>
    ]_vars

\* a prediction was returned after a session and the two messages of a chat
\* request were stored, and the chat request, which predicted for the same
\* FarmInput before its messages were stored, carries the same prediction
C18_Witness ==
  /\ last_response.op = "predict"
  /\ last_response.status = 200
  /\ ML_MODEL_LOADED
  /\ Len(db_sessions) = 1
  /\ Len(db_messages) = 2
  /\ \E r \in DOMAIN requests :
       /\ requests[r].pc = "done"
       /\ requests[r].farm_context # None
       /\ FarmInputOf(The(requests[r].farm_context), FALSE) = last_response.arg
       /\ The(requests[r].result).ml_prediction = Some(last_response.body)
\* C19: the language detected for a text is "en", "hi" or "te": "en" for the
\* empty text; "te" when more than 15 per cent of the characters are Telugu;
\* otherwise "hi" when more than 15 per cent are Devanagari; otherwise "hi"
\* when the lower-cased text contains one of the romanized Hindi words; "en"
\* in every other case.
C19_LanguageRule ==
  last_response.op = "detect_language" =>
    LET text == last_response.arg
        language == last_response.body.language
        total == Len(text)
        telugu == Cardinality({i \in 1..total : text[i] \in 3072..3199})
        hindi == Cardinality({i \in 1..total : text[i] \in 2304..2431})
        much_telugu == telugu * 100 > 15 * total
        much_hindi == hindi * 100 > 15 * total
        roman_hindi == \E w \in 1..Len(hindi_words) : Contains(hindi_words[w], lower(text))
    IN /\ language \in {"en", "hi", "te"}
       /\ total = 0 => language = "en"
       /\ much_telugu => language = "te"
       /\ (~much_telugu /\ much_hindi) => language = "hi"
       /\ (~much_telugu /\ ~much_hindi /\ roman_hindi) => language = "hi"
       /\ (~much_telugu /\ ~much_hindi /\ ~roman_hindi) => language = "en"

\* a text of 20 characters of which 3, exactly 15 per cent, are Telugu and
\* which holds "KHETI" in capitals was detected as Hindi
C19_Witness ==
  /\ last_response.op = "detect_language"
  /\ Len(last_response.arg) = 20
  /\ telugu_chars(last_response.arg) = 3
  /\ hindi_chars(last_response.arg) = 0
  /\ ~Contains(<<107, 104, 101, 116, 105>>, last_response.arg)
  /\ last_response.body.language = "hi"
\* C20: a weather request whose lower-cased, stripped location contains the
\* name of a district has issued one GET with the coordinates of such a
\* district, whatever state it names; one that contains the name of a state
\* and of no district has issued one GET with the coordinates of such a state;
\* one that contains neither has issued no GET and is answered with error
\* true. No request issues a second GET, however the first one ends.
C20_GeocodeAndOneGet ==
  weather_call.pc # "idle" =>
    LET location_lower == strip(lower(weather_call.location))
        districts == {i \in 1..Len(DISTRICT_COORDS) :
                        Contains(DISTRICT_COORDS[i][1], location_lower)}
        states == {i \in 1..Len(INDIA_LOCATIONS) :
                     Contains(INDIA_LOCATIONS[i][1], location_lower)}
        sent(coords) == weather_call.params =
                          Some([latitude |-> coords.lat, longitude |-> coords.lon])
    IN /\ districts # {} =>
            /\ weather_call.gets = 1
            /\ \E i \in districts : sent(DISTRICT_COORDS[i][2])
       /\ (districts = {} /\ states # {}) =>
            /\ weather_call.gets = 1
            /\ \E i \in states : sent(INDIA_LOCATIONS[i][2])
       /\ (districts = {} /\ states = {}) =>
            /\ weather_call.gets = 0
            /\ weather_call.params = None
            /\ weather_call.pc = "done"
            /\ The(weather_call.result).error = TRUE

\* "Punjab Ludhiana", which names the state before the district, was answered
\* from one GET with the coordinates of Ludhiana, which are not those of Punjab
C20_Witness ==
  /\ weather_call.pc = "done"
  /\ weather_call.location = <<80, 117, 110, 106, 97, 98, 32, 76, 117, 100, 104, 105, 97, 110, 97>>
  /\ weather_call.gets = 1
  /\ weather_call.params = Some([latitude |-> 309010, longitude |-> 758573])
  /\ The(Get(INDIA_LOCATIONS, <<112, 117, 110, 106, 97, 98>>)).lat # 309010
  /\ The(weather_call.result).error = FALSE

\* C21: in every advisory result the advisories follow the thresholds: of
\* heat_stress, heat_advisory and cold_advisory the one whose range holds the
\* temperature (above 40, above 35 up to 40, below 10) occurs once and the
\* others do not; likewise heavy_rain_warning, rain_expected and dry_spell for
\* the 7-day total (above 100, above 50 up to 100, below 5), disease_risk for
\* a humidity above 85, spray_favorable and spray_unfavorable for a wind below
\* 10 and above 20; no other type occurs and there are at most 4 advisories.
C21_AdvisoriesByThreshold ==
  (weather_call.pc = "done" /\ The(weather_call.result).error = FALSE) =>
    LET result == The(weather_call.result)
        temp == The(result.current.temperature_c)
        humidity == The(result.current.humidity_percent)
        wind == The(result.current.wind_speed_kmh)
        total == total_rain_7days(result.forecast_7day)
        count(type) == Cardinality({i \in 1..Len(result.advisories) :
                                      result.advisories[i].type = type})
        once(type, holds) == count(type) = IF holds THEN 1 ELSE 0
    IN /\ once("heat_stress", temp > 400)
       /\ once("heat_advisory", temp > 350 /\ temp <= 400)
       /\ once("cold_advisory", temp < 100)
       /\ once("heavy_rain_warning", total > 1000)
       /\ once("rain_expected", total > 500 /\ total <= 1000)
       /\ once("dry_spell", total < 50)
       /\ once("disease_risk", humidity > 850)
       /\ once("spray_favorable", wind < 100)
       /\ once("spray_unfavorable", wind > 200)
       /\ \A i \in 1..Len(result.advisories) :
            result.advisories[i].type \in
              {"heat_stress", "heat_advisory", "cold_advisory", "heavy_rain_warning",
               "rain_expected", "dry_spell", "disease_risk", "spray_favorable",
               "spray_unfavorable"}
       /\ Len(result.advisories) <= 4

\* 40.1 degrees, 100.5 mm over three days, 85.1 per cent and 20.1 km/h: four
\* advisories, one of each group
C21_Witness ==
  /\ weather_call.pc = "done"
  /\ weather_call.data.current.temperature_2m = Some(401)
  /\ weather_call.data.current.relative_humidity_2m = Some(851)
  /\ weather_call.data.current.wind_speed_10m = Some(201)
  /\ weather_call.data.daily = Days(<<Some(600), None, Some(405)>>)
  /\ The(weather_call.result).error = FALSE
  /\ [i \in 1..4 |-> The(weather_call.result).advisories[i].type]
       = <<"heat_stress", "heavy_rain_warning", "disease_risk", "spray_unfavorable">>

\* C30: every weather request is answered, none fails with an exception of
\* get_weather; where the GET ended with an HTTP error status, a body that is
\* no JSON object or a transport exception, or where the payload holds a null
\* temperature or a null humidity, the answer is the result with error true.
C30_NeverRaises ==
  weather_call.pc = "done" =>
    /\ weather_call.status = 200
    /\ weather_call.result # None
    /\ ( \/ weather_call.outcome \in {"status_error", "malformed", "exception"}
         \/ /\ weather_call.outcome = "ok"
            /\ \/ weather_call.data.current.temperature_2m = None
               \/ weather_call.data.current.relative_humidity_2m = None )
        => The(weather_call.result)
             = [error |-> TRUE,
                message |-> "Could not fetch weather data for this location"]

\* a payload that parsed, with a null temperature beside a humidity, a wind
\* speed and a forecast, was answered with error true after one GET
C30_Witness ==
  /\ weather_call.pc = "done"
  /\ weather_call.outcome = "ok"
  /\ weather_call.gets = 1
  /\ weather_call.data.current.temperature_2m = None
  /\ weather_call.data.current.relative_humidity_2m = Some(850)
  /\ weather_call.data.current.wind_speed_10m = Some(100)
  /\ weather_call.data.daily = Days(<<Some(500)>>)
  /\ weather_call.status = 200
  /\ The(weather_call.result).error = TRUE

\* C22: in every prediction the Rainfall factor is "Positive" exactly when
\* 600 < rainfall < 1200; a "Risk" factor reads "below optimal" for every
\* rainfall at or under 600 and "above optimal" only for a rainfall at or
\* over 1200. The rainfall is the figure of the input or, without one, the
\* default.
C22_RainfallFactor ==
  (last_response.op = "predict" /\ last_response.status = 200) =>
    LET rainfall == rainfall_of(last_response.arg)
        listed == last_response.body.influential_factors
    IN \E i \in 1..Len(listed) :
         /\ listed[i].factor = "Rainfall"
         /\ listed[i].impact = "Positive" <=> (600 < rainfall /\ rainfall < 1200)
         /\ listed[i].impact \in {"Positive", "Risk"}
         /\ listed[i].impact = "Risk" =>
              /\ rainfall <= 600 => listed[i].detail.text = "mm - below optimal"
              /\ listed[i].detail.text = "mm - above optimal" => rainfall >= 1200

\* C23: every prediction for an input that supplies an irrigation_percent
\* below 40, 0 included, has the risk_level "Medium" or "High" and the
\* Irrigation factor "Negative".
C23_LowIrrigationIsRisk ==
  ( /\ last_response.op = "predict"
    /\ last_response.status = 200
    /\ last_response.arg.irrigation_percent # None
    /\ The(last_response.arg.irrigation_percent) < 40 ) =>
      /\ last_response.body.risk_level \in {"Medium", "High"}
      /\ \E i \in 1..Len(last_response.body.influential_factors) :
           /\ last_response.body.influential_factors[i].factor = "Irrigation"
           /\ last_response.body.influential_factors[i].impact = "Negative"

\* C24: the recommendations of every prediction hold the Soil Health Card
\* recommendation.
C24_SoilHealthCardListed ==
  (last_response.op = "predict" /\ last_response.status = 200) =>
    \E i \in 1..Len(last_response.body.recommendations) :
      last_response.body.recommendations[i].kind = "Soil Health Card"

\* C25: with no model loaded, a prediction for an input that differs from
\* the input of the prediction before it in season, temperature_c and
\* area_hectares only is answered as the one before was.
C25_SeasonTemperatureAreaUnread ==
  [][ ( /\ ~ML_MODEL_LOADED
        /\ last_response.op = "predict"
        /\ last_response'.op = "predict"
        /\ [last_response'.arg EXCEPT !.season = <<>>, !.temperature_c = None,
                                      !.area_hectares = None]
             = [last_response.arg EXCEPT !.season = <<>>, !.temperature_c = None,
                                        !.area_hectares = None] )
      => /\ last_response'.status = last_response.status
         /\ last_response'.body = last_response.body ]_vars

\* with no model loaded, a prediction for rice with 39 per cent irrigation in
\* the Rabi season at 45 degrees on 2 hectares: risk "Medium" and the average
\* yield of the crop, as for the kharif season with no temperature and area
C25_Witness ==
  /\ ~ML_MODEL_LOADED
  /\ last_response.op = "predict"
  /\ last_response.status = 200
  /\ last_response.arg.crop_type = <<82, 105, 99, 101>>
  /\ last_response.arg.season = <<82, 97, 98, 105>>
  /\ last_response.arg.temperature_c = Some(45)
  /\ last_response.arg.area_hectares = Some(2)
  /\ last_response.arg.irrigation_percent = Some(39)
  /\ last_response.arg.rainfall_mm = None
  /\ last_response.body =
       The(predict_yield_ml([last_response.arg EXCEPT
                               !.season = <<107, 104, 97, 114, 105, 102>>,
                               !.temperature_c = None,
                               !.area_hectares = None]).value)
  /\ last_response.body.risk_level = "Medium"

\* C26: a send_message whose POST ended with a status other than 200 or with
\* an exception returns the error text of that failure and leaves the history
\* as it was: the user entry it appended is kept and, where no call on that
\* chat overlapped another, is the last entry. A send_message that starts on
\* a history a failed call left that way posts a payload whose last two
\* messages are user messages.
C26_FailedCallNotRolledBack ==
  [][ \A r \in DOMAIN requests :
        /\ ( /\ requests[r].pc = "post"
             /\ requests'[r].pc # "post"
             /\ requests'[r].outcome \in {"non200", "exception"} ) =>
             LET s == requests[r].session_id
                 entry == [role |-> "user", content |-> requests[r].enriched]
             IN /\ requests'[r].pc = "insert"
                /\ requests'[r].response_text =
                     IF requests'[r].outcome = "non200" THEN ApiErrorText
                     ELSE ConnectErrorText
                /\ chat_sessions'[s].history = chat_sessions[s].history
                /\ \E i \in 1..Len(chat_sessions'[s].history) :
                     chat_sessions'[s].history[i] = entry
                /\ (\A q \in DOMAIN requests :
                      requests[q].session_id = s => ~requests[q].overlap)
                   => chat_sessions'[s].history[Len(chat_sessions'[s].history)] = entry
        /\ ( /\ requests[r].pc = "idle"
             /\ requests'[r].pc = "post"
             /\ requests'[r].session_id \in DOMAIN chat_sessions
             /\ \A q \in DOMAIN requests :
                  requests[q].session_id = requests'[r].session_id
                    => requests[q].pc # "post"
             /\ LET before == chat_sessions[requests'[r].session_id].history
                IN before[Len(before)].role = "user" ) =>
             LET before == chat_sessions[requests'[r].session_id].history
                 messages == The(requests'[r].post).messages
             IN /\ Len(messages) = Len(before) + 1
                /\ messages[Len(messages) - 1] = before[Len(before)]
                /\ messages[Len(messages) - 1].role = "user"
                /\ messages[Len(messages)].role = "user"
    ]_vars

\* two calls on one chat, one after the other: the first ended with an
\* exception and returned the error text, the second posted the system
\* message and two user messages, the first of them the failed call's
C26_Witness ==
  \E r1, r2 \in DOMAIN requests :
    /\ r1 # r2
    /\ requests[r1].session_id = requests[r2].session_id
    /\ requests[r1].outcome = "exception"
    /\ requests[r1].response_text = ConnectErrorText
    /\ ~requests[r2].overlap
    /\ requests[r2].post # None
    /\ Len(The(requests[r2].post).messages) = 3
    /\ The(requests[r2].post).messages[2]
         = [role |-> "user", content |-> requests[r1].enriched]
    /\ The(requests[r2].post).messages[3]
         = [role |-> "user", content |-> requests[r2].enriched]

C28_OneChatPerSession ==
  [][ /\ \A s \in DOMAIN chat_sessions :
           /\ s \in DOMAIN chat_sessions'
           /\ [chat_sessions'[s] EXCEPT !.history = <<>>]
                = [chat_sessions[s] EXCEPT !.history = <<>>]
           /\ Len(chat_sessions'[s].history) >= Len(chat_sessions[s].history)
           /\ \A i \in 1..Len(chat_sessions[s].history) :
                chat_sessions'[s].history[i] = chat_sessions[s].history[i]
      /\ \A s \in DOMAIN chat_sessions' :
           /\ chat_sessions'[s].session_id = s
           /\ s \notin DOMAIN chat_sessions =>
                \E r \in DOMAIN requests :
                  /\ requests[r].pc = "idle"
                  /\ requests'[r].pc # "idle"
                  /\ requests'[r].session_id = s
      /\ \A r \in DOMAIN requests :
           requests'[r] # requests[r] =>
             \A s \in DOMAIN chat_sessions :
               s # requests'[r].session_id => chat_sessions'[s] = chat_sessions[s]
    ]_vars

\* two requests of one new session_id wait for the provider at once: there is
\* one chat, and its history holds the system message and both user entries
C28_Witness ==
  \E r1, r2 \in DOMAIN requests :
    /\ r1 # r2
    /\ requests[r1].pc = "post"
    /\ requests[r2].pc = "post"
    /\ requests[r1].session_id = requests[r2].session_id
    /\ DOMAIN chat_sessions = {requests[r1].session_id}
    /\ Len(chat_sessions[requests[r1].session_id].history) = 3
    /\ chat_sessions[requests[r1].session_id].history[2].content = requests[r1].enriched
    /\ chat_sessions[requests[r1].session_id].history[3].content = requests[r2].enriched

====
